---- MODULE Spec2Model ----
\* A model of the weather widget's network-resilience, validation and
\* location-resolution core (src/weather-widget/scripts/weather-widget.js).
\*
\* JavaScript strings are modelled as sequences of one-character strings, so
\* that trim(), template literals, the dangerous-character test and
\* String.prototype.includes are computed character by character.
\* Time is in milliseconds.  Timers fire when they are due: time does not
\* advance past a due timer.
EXTENDS Integers, Sequences, FiniteSets, TLC

VARIABLES
    op,          \* the entry point under analysis
    arg,         \* the argument it was called with
    body,        \* the response body it has read, [kind |-> "none"] before
    result,      \* its outcome, [kind |-> "none"] while it has not finished
    fpc,         \* fetchWithRetry: "idle", "fetching", "backoff", "returned", "thrown"
    maxRetries,  \* fetchWithRetry: the maxRetries argument
    timeout,     \* fetchWithRetry: defaultOptions.timeout
    attempt,     \* fetchWithRetry: the loop variable
    now,         \* the clock, ms since the call
    timers,      \* pending setTimeout timers
    requests,    \* number of fetch() calls issued so far
    fresult,     \* fetchWithRetry: the value returned or the error thrown
    starts,      \* history: the time at which each attempt issued its request
    settled,     \* history: how the fetch() of each attempt settled, and when
    failures,    \* history: the error caught by each failed attempt, and when
    widget       \* the WeatherWidget and its load in progress, [kind |-> "none"] without one

vars ==
    <<op, arg, body, result, fpc, maxRetries, timeout, attempt, now, timers, requests,
      fresult, starts, settled, failures, widget>>

-----------------------------------------------------------------------------
\* Bounds of the exploration

\* the largest maxRetries argument explored
MaxRetriesBound ==
    3

\* the clock advances by at most this many ms in one step
TickMs ==
    5000

-----------------------------------------------------------------------------
\* Program constants

DefaultTimeout ==
    10000

DefaultMaxRetries ==
    3

BackoffBaseMs ==
    1000

MinCityLength ==
    2

MaxCityLength ==
    100

-----------------------------------------------------------------------------
\* String literals of the source

\* src/weather-widget/scripts/weather-widget.js:24: 'HTTP '
MsgHttpPrefix ==
    <<"H","T","T","P"," ">>

\* src/weather-widget/scripts/weather-widget.js:24: ': '
MsgHttpSep ==
    <<":"," ">>

\* src/weather-widget/scripts/weather-widget.js:32: 'Request timeout - please check your internet connection and try again'
MsgRequestTimeout ==
    <<"R","e","q","u","e","s","t"," ","t","i","m","e","o","u","t"," ","-"," ","p","l","e","a",
      "s","e"," ","c","h","e","c","k"," ","y","o","u","r"," ","i","n","t","e","r","n","e","t",
      " ","c","o","n","n","e","c","t","i","o","n"," ","a","n","d"," ","t","r","y"," ","a","g",
      "a","i","n">>

\* src/weather-widget/scripts/weather-widget.js:35: 'Network connection failed - please check your internet connection'
MsgNetworkFailed ==
    <<"N","e","t","w","o","r","k"," ","c","o","n","n","e","c","t","i","o","n"," ","f","a","i",
      "l","e","d"," ","-"," ","p","l","e","a","s","e"," ","c","h","e","c","k"," ","y","o","u",
      "r"," ","i","n","t","e","r","n","e","t"," ","c","o","n","n","e","c","t","i","o","n">>

\* src/weather-widget/scripts/weather-widget.js:49: 'City name is required'
MsgCityRequired ==
    <<"C","i","t","y"," ","n","a","m","e"," ","i","s"," ","r","e","q","u","i","r","e","d">>

\* src/weather-widget/scripts/weather-widget.js:54: 'City name cannot be empty'
MsgCityEmpty ==
    <<"C","i","t","y"," ","n","a","m","e"," ","c","a","n","n","o","t"," ","b","e"," ","e","m",
      "p","t","y">>

\* src/weather-widget/scripts/weather-widget.js:58: 'City name must be at least 2 characters long'
MsgCityTooShort ==
    <<"C","i","t","y"," ","n","a","m","e"," ","m","u","s","t"," ","b","e"," ","a","t"," ","l",
      "e","a","s","t"," ","2"," ","c","h","a","r","a","c","t","e","r","s"," ","l","o","n","g">>

\* src/weather-widget/scripts/weather-widget.js:62: 'City name is too long (max 100 characters)'
MsgCityTooLong ==
    <<"C","i","t","y"," ","n","a","m","e"," ","i","s"," ","t","o","o"," ","l","o","n","g"," ",
      "(","m","a","x"," ","1","0","0"," ","c","h","a","r","a","c","t","e","r","s",")">>

\* src/weather-widget/scripts/weather-widget.js:68: 'City name contains invalid characters'
MsgCityInvalidChars ==
    <<"C","i","t","y"," ","n","a","m","e"," ","c","o","n","t","a","i","n","s"," ","i","n","v",
      "a","l","i","d"," ","c","h","a","r","a","c","t","e","r","s">>

\* src/weather-widget/scripts/weather-widget.js:91: 'No results found for "'
MsgNoResultsHead ==
    <<"N","o"," ","r","e","s","u","l","t","s"," ","f","o","u","n","d"," ","f","o","r"," ","\"">>

\* src/weather-widget/scripts/weather-widget.js:91: '". Please check the spelling or try a different city name.'
MsgNoResultsTail ==
    <<"\"","."," ","P","l","e","a","s","e"," ","c","h","e","c","k"," ","t","h","e"," ","s","p",
      "e","l","l","i","n","g"," ","o","r"," ","t","r","y"," ","a"," ","d","i","f","f","e","r",
      "e","n","t"," ","c","i","t","y"," ","n","a","m","e",".">>

\* src/weather-widget/scripts/weather-widget.js:98: 'Invalid location data received from server'
MsgInvalidLocationData ==
    <<"I","n","v","a","l","i","d"," ","l","o","c","a","t","i","o","n"," ","d","a","t","a"," ",
      "r","e","c","e","i","v","e","d"," ","f","r","o","m"," ","s","e","r","v","e","r">>

\* src/weather-widget/scripts/weather-widget.js:109: 'No results found'
NeedleNoResults ==
    <<"N","o"," ","r","e","s","u","l","t","s"," ","f","o","u","n","d">>

\* src/weather-widget/scripts/weather-widget.js:109: 'Invalid location'
NeedleInvalidLocation ==
    <<"I","n","v","a","l","i","d"," ","l","o","c","a","t","i","o","n">>

\* src/weather-widget/scripts/weather-widget.js:112: 'Unable to find location: '
MsgUnableToFindLocation ==
    <<"U","n","a","b","l","e"," ","t","o"," ","f","i","n","d"," ","l","o","c","a","t","i","o",
      "n",":"," ">>

\* src/weather-widget/scripts/weather-widget.js:105: 'Unknown'
StrUnknown ==
    <<"U","n","k","n","o","w","n">>

\* src/weather-widget/scripts/weather-widget.js:120: 'Invalid coordinates provided'
MsgInvalidCoordinates ==
    <<"I","n","v","a","l","i","d"," ","c","o","o","r","d","i","n","a","t","e","s"," ","p","r",
      "o","v","i","d","e","d">>

\* src/weather-widget/scripts/weather-widget.js:124: 'Invalid latitude (must be between -90 and 90)'
MsgInvalidLatitude ==
    <<"I","n","v","a","l","i","d"," ","l","a","t","i","t","u","d","e"," ","(","m","u","s","t",
      " ","b","e"," ","b","e","t","w","e","e","n"," ","-","9","0"," ","a","n","d"," ","9","0",
      ")">>

\* src/weather-widget/scripts/weather-widget.js:128: 'Invalid longitude (must be between -180 and 180)'
MsgInvalidLongitude ==
    <<"I","n","v","a","l","i","d"," ","l","o","n","g","i","t","u","d","e"," ","(","m","u","s",
      "t"," ","b","e"," ","b","e","t","w","e","e","n"," ","-","1","8","0"," ","a","n","d"," ",
      "1","8","0",")">>

\* src/weather-widget/scripts/weather-widget.js:149: 'Invalid weather data format received from server'
MsgInvalidWeatherFormat ==
    <<"I","n","v","a","l","i","d"," ","w","e","a","t","h","e","r"," ","d","a","t","a"," ","f",
      "o","r","m","a","t"," ","r","e","c","e","i","v","e","d"," ","f","r","o","m"," ","s","e",
      "r","v","e","r">>

\* src/weather-widget/scripts/weather-widget.js:154: 'Invalid coordinates'
NeedleInvalidCoordinates ==
    <<"I","n","v","a","l","i","d"," ","c","o","o","r","d","i","n","a","t","e","s">>

\* src/weather-widget/scripts/weather-widget.js:154: 'Invalid latitude'
NeedleInvalidLatitude ==
    <<"I","n","v","a","l","i","d"," ","l","a","t","i","t","u","d","e">>

\* src/weather-widget/scripts/weather-widget.js:154: 'Invalid longitude'
NeedleInvalidLongitude ==
    <<"I","n","v","a","l","i","d"," ","l","o","n","g","i","t","u","d","e">>

\* src/weather-widget/scripts/weather-widget.js:157: 'Unable to fetch weather data: '
MsgUnableToFetchWeather ==
    <<"U","n","a","b","l","e"," ","t","o"," ","f","e","t","c","h"," ","w","e","a","t","h","e",
      "r"," ","d","a","t","a",":"," ">>

\* src/weather-widget/scripts/weather-widget.js:468: 'Please enter a valid city name (letters, spaces, and basic punctuation only)'
MsgEnterValidCity ==
    <<"P","l","e","a","s","e"," ","e","n","t","e","r"," ","a"," ","v","a","l","i","d"," ","c",
      "i","t","y"," ","n","a","m","e"," ","(","l","e","t","t","e","r","s",","," ","s","p","a",
      "c","e","s",","," ","a","n","d"," ","b","a","s","i","c"," ","p","u","n","c","t","u","a",
      "t","i","o","n"," ","o","n","l","y",")">>

\* src/weather-widget/scripts/weather-widget.js:500: 'Failed to load weather data'
MsgFailedToLoad ==
    <<"F","a","i","l","e","d"," ","t","o"," ","l","o","a","d"," ","w","e","a","t","h","e","r",
      " ","d","a","t","a">>

\* src/weather-widget/scripts/weather-widget.js:501: 'valid city name'
NeedleValidCityName ==
    <<"v","a","l","i","d"," ","c","i","t","y"," ","n","a","m","e">>

\* src/weather-widget/scripts/weather-widget.js:502: 'Invalid city name'
MsgInvalidCityName ==
    <<"I","n","v","a","l","i","d"," ","c","i","t","y"," ","n","a","m","e">>

\* src/weather-widget/scripts/weather-widget.js:503: 'Unable to find coordinates'
NeedleUnableToFindCoordinates ==
    <<"U","n","a","b","l","e"," ","t","o"," ","f","i","n","d"," ","c","o","o","r","d","i","n",
      "a","t","e","s">>

\* src/weather-widget/scripts/weather-widget.js:504: 'City not found: "'
MsgCityNotFound ==
    <<"C","i","t","y"," ","n","o","t"," ","f","o","u","n","d",":"," ","\"">>

\* src/weather-widget/scripts/weather-widget.js:505: 'network'
NeedleNetwork ==
    <<"n","e","t","w","o","r","k">>

\* src/weather-widget/scripts/weather-widget.js:505: 'fetch'
NeedleFetch ==
    <<"f","e","t","c","h">>

\* src/weather-widget/scripts/weather-widget.js:506: 'Network connection problem'
MsgNetworkProblem ==
    <<"N","e","t","w","o","r","k"," ","c","o","n","n","e","c","t","i","o","n"," ","p","r","o",
      "b","l","e","m">>

\* src/weather-widget/scripts/weather-widget.js:507: 'timeout'
NeedleTimeout ==
    <<"t","i","m","e","o","u","t">>

\* src/weather-widget/scripts/weather-widget.js:508: 'Request timed out - please try again'
MsgRequestTimedOut ==
    <<"R","e","q","u","e","s","t"," ","t","i","m","e","d"," ","o","u","t"," ","-"," ","p","l",
      "e","a","s","e"," ","t","r","y"," ","a","g","a","i","n">>

-----------------------------------------------------------------------------
\* Values

None ==
    [kind |-> "none"]

Undefined ==
    [kind |-> "undefined"]

Value(v) ==
    [kind |-> "value", value |-> v]

ErrorOf(n, m) ==
    [kind |-> "error", name |-> n, message |-> m]

\* JavaScript values
JsUndefined ==
    [t |-> "undefined"]

JsNull ==
    [t |-> "null"]

JsNaN ==
    [t |-> "nan"]

Num(n) ==
    [t |-> "number", num |-> n]

\* Infinity and -Infinity
JsInfinity(sign) ==
    [t |-> "infinity", sign |-> sign]

Str(s) ==
    [t |-> "string", str |-> s]

\* typeof
TypeOf(x) ==
    CASE x.t = "string" -> "string"
      [] x.t = "number" -> "number"
      [] x.t = "nan" -> "number"
      [] x.t = "infinity" -> "number"
      [] x.t = "undefined" -> "undefined"
      [] x.t = "null" -> "object"
      [] x.t = "object" -> "object"

\* the truth value of x in a condition: !x is ~Truthy(x)
Truthy(x) ==
    CASE x.t = "string" -> x.str # <<>>
      [] x.t = "number" -> x.num # 0
      [] x.t = "infinity" -> TRUE
      [] x.t = "object" -> TRUE
      [] OTHER -> FALSE

\* x < n and x > n for a number value x: false for NaN
NumLess(x, n) ==
    CASE x.t = "number" -> x.num < n
      [] x.t = "infinity" -> x.sign < 0
      [] OTHER -> FALSE

NumGreater(x, n) ==
    CASE x.t = "number" -> x.num > n
      [] x.t = "infinity" -> x.sign > 0
      [] OTHER -> FALSE

DigitChars ==
    <<"0", "1", "2", "3", "4", "5", "6", "7", "8", "9">>

\* the decimal digits of a natural number, as a template literal prints it
RECURSIVE DecimalChars(_)
DecimalChars(n) ==
    IF n < 10 THEN <<DigitChars[n + 1]>>
    ELSE DecimalChars(n \div 10) \o <<DigitChars[(n % 10) + 1]>>

\* String.prototype.includes
Includes(s, needle) ==
    \E i \in 1..(Len(s) - Len(needle) + 1) : SubSeq(s, i, i + Len(needle) - 1) = needle

-----------------------------------------------------------------------------
\* The network, as fetch() sees it

StatusTextOf ==
    [s \in {200, 299, 300, 404} |->
        CASE s = 200 -> <<"O", "K">>
          [] s = 299 -> <<>>
          [] s = 300 -> <<"M", "u", "l", "t", "i", "p", "l", "e">>
          [] s = 404 -> <<"N", "o", "t", " ", "F", "o", "u", "n", "d">>]

\* the responses a server may send
Responses ==
    {[kind |-> "response", status |-> s, statusText |-> StatusTextOf[s]] :
        s \in DOMAIN StatusTextOf}

\* a variant that takes every status below 400 for a success
ResponseOk_Below400(response) ==
    response.status >= 200 /\ response.status < 400

\* Response.ok
ResponseOk(response) ==
    response.status >= 200 /\ response.status <= 299

\* the rejection of fetch() when its signal is aborted
AbortError ==
    ErrorOf("AbortError", <<"a", "b", "o", "r", "t", "e", "d">>)

\* the rejection of fetch() on a low-level network fault
NetworkFault ==
    ErrorOf("TypeError", <<"F", "a", "i", "l", "e", "d", " ", "t", "o", " ", "f", "e", "t", "c", "h">>)

-----------------------------------------------------------------------------
\* NetworkUtils.fetchWithRetry

\* the options arguments explored: none, and an explicit timeout
OptionsSet ==
    {<<>>, [timeout |-> 5000]}

\* { timeout: 10000, ...options }
DefaultOptionsTimeout(options) ==
    IF "timeout" \in DOMAIN options THEN options.timeout ELSE DefaultTimeout

\* new Error(`HTTP ${response.status}: ${response.statusText}`)
HttpError(response) ==
    ErrorOf("Error",
            MsgHttpPrefix \o DecimalChars(response.status) \o MsgHttpSep \o response.statusText)

\* the loop condition, attempt <= maxRetries
LoopContinues(a, m) ==
    a <= m

\* attempt === maxRetries
IsLastAttempt(a, m) ==
    a = m

\* a variant that rethrows whatever was caught
SurfacedError_Raw(error) ==
    error

\* what the catch block throws on the last attempt
SurfacedError(error) ==
    IF error.name = "AbortError" THEN ErrorOf("Error", MsgRequestTimeout)
    ELSE IF error.name = "TypeError" THEN ErrorOf("Error", MsgNetworkFailed)
    ELSE error

\* a variant with a constant delay
BackoffDelay_Constant(a) ==
    BackoffBaseMs

\* Math.pow(2, attempt - 1) * 1000
BackoffDelay(a) ==
    (2 ^ (a - 1)) * BackoffBaseMs

AbortTimer(a, due) ==
    [kind |-> "abort", att |-> a, due |-> due]

BackoffTimer(a, due) ==
    [kind |-> "backoff", att |-> a, due |-> due]

\* one pass of the try block up to the await: a controller, its timer, the request
StartAttempt(a, pending, tmo) ==
    /\ attempt' = a
    /\ timers' = pending \cup {AbortTimer(a, now + tmo)}
    /\ requests' = requests + 1
    /\ starts' = Append(starts, now)
    /\ fpc' = "fetching"

\* the catch block, entered with error while pending timers remain
Catch(error, pending) ==
    /\ failures' = Append(failures, [error |-> error, at |-> now])
    /\ IF IsLastAttempt(attempt, maxRetries)
       THEN /\ fpc' = "thrown"
            /\ fresult' = SurfacedError(error)
            /\ timers' = pending
       ELSE /\ fpc' = "backoff"
            /\ timers' = pending \cup {BackoffTimer(attempt, now + BackoffDelay(attempt))}
            /\ UNCHANGED fresult
    /\ UNCHANGED <<attempt, requests, starts, maxRetries, timeout, now>>

\* a variant that tests the loop condition only after the first pass
EnterFetchWithRetry_DoWhile(options, m) ==
    /\ fpc = "idle"
    /\ maxRetries' = m
    /\ timeout' = DefaultOptionsTimeout(options)
    /\ StartAttempt(1, timers, DefaultOptionsTimeout(options))
    /\ UNCHANGED <<fresult, now, settled, failures>>

\* the call: the loop is entered and runs to its first await
EnterFetchWithRetry(options, m) ==
    /\ fpc = "idle"
    /\ maxRetries' = m
    /\ timeout' = DefaultOptionsTimeout(options)
    /\ IF LoopContinues(1, m)
       THEN /\ StartAttempt(1, timers, DefaultOptionsTimeout(options))
            /\ UNCHANGED fresult
       ELSE /\ fpc' = "returned"
            /\ fresult' = Undefined
            /\ UNCHANGED <<attempt, timers, requests, starts>>
    /\ UNCHANGED <<now, settled, failures>>

\* fetch() resolves with a response
FetchResolves(response) ==
    /\ fpc = "fetching"
    /\ settled' = Append(settled, [outcome |-> response, at |-> now])
    /\ LET cleared == timers \ {t \in timers : t.kind = "abort" /\ t.att = attempt}
       IN  IF ~ResponseOk(response)
           THEN Catch(HttpError(response), cleared)
           ELSE /\ fpc' = "returned"
                /\ fresult' = response
                /\ timers' = cleared
                /\ UNCHANGED <<attempt, requests, starts, maxRetries, timeout, now, failures>>
    /\ UNCHANGED <<widget, op, arg, body, result>>

\* fetch() rejects on a network fault; the attempt's timer stays armed
FetchRejects ==
    /\ fpc = "fetching"
    /\ settled' = Append(settled, [outcome |-> NetworkFault, at |-> now])
    /\ Catch(NetworkFault, timers)
    /\ UNCHANGED <<widget, op, arg, body, result>>

\* a variant whose timer does not cancel the request
AbortTimerFires_NoCancel ==
    /\ fpc = "fetching"
    /\ \E t \in timers :
        /\ t.kind = "abort" /\ t.att = attempt /\ t.due <= now
        /\ timers' = timers \ {t}
    /\ UNCHANGED <<widget, op, arg, body, result, fpc, maxRetries, timeout, attempt, now, requests,
                   fresult, starts, settled, failures>>

\* the timer of the attempt in flight fires: controller.abort()
AbortTimerFires ==
    /\ fpc = "fetching"
    /\ \E t \in timers :
        /\ t.kind = "abort" /\ t.att = attempt /\ t.due <= now
        /\ settled' = Append(settled, [outcome |-> AbortError, at |-> now])
        /\ Catch(AbortError, timers \ {t})
    /\ UNCHANGED <<widget, op, arg, body, result>>

\* the timer of an attempt that is over fires: its controller has no request left
StaleTimerFires ==
    /\ \E t \in timers :
        /\ t.kind = "abort" /\ t.due <= now
        /\ ~(fpc = "fetching" /\ t.att = attempt)
        /\ timers' = timers \ {t}
    /\ UNCHANGED <<widget, op, arg, body, result, fpc, maxRetries, timeout, attempt, now, requests,
                   fresult, starts, settled, failures>>

\* a variant that goes round without waiting for the delay
BackoffElapses_Early ==
    /\ fpc = "backoff"
    /\ \E t \in timers :
        /\ t.kind = "backoff" /\ t.att = attempt
        /\ StartAttempt(attempt + 1, timers \ {t}, timeout)
    /\ UNCHANGED <<widget, op, arg, body, result, maxRetries, timeout, now, fresult, settled, failures>>

\* the backoff delay is over: the loop goes round
BackoffElapses ==
    /\ fpc = "backoff"
    /\ \E t \in timers :
        /\ t.kind = "backoff" /\ t.att = attempt /\ t.due <= now
        /\ IF LoopContinues(attempt + 1, maxRetries)
           THEN /\ StartAttempt(attempt + 1, timers \ {t}, timeout)
                /\ UNCHANGED fresult
           ELSE /\ fpc' = "returned"
                /\ fresult' = Undefined
                /\ attempt' = attempt + 1
                /\ timers' = timers \ {t}
                /\ UNCHANGED <<requests, starts>>
    /\ UNCHANGED <<widget, op, arg, body, result, maxRetries, timeout, now, settled, failures>>

\* time passes, up to the next timer that is due
Tick ==
    /\ timers # {} \/ fpc = "fetching"
    /\ \A t \in timers : t.due > now
    /\ LET steps == {TickMs} \cup {t.due - now : t \in timers}
       IN  now' = now + CHOOSE d \in steps : \A e \in steps : d <= e
    /\ UNCHANGED <<widget, op, arg, body, result, fpc, maxRetries, timeout, attempt, timers, requests,
                   fresult, starts, settled, failures>>

\* a direct call of fetchWithRetry(url, options, maxRetries)
CallFetchWithRetry ==
    /\ op = "fetchWithRetry"
    /\ \E options \in OptionsSet, m \in 0..MaxRetriesBound : EnterFetchWithRetry(options, m)
    /\ UNCHANGED <<widget, op, arg, body, result>>

InitFetchVars ==
    /\ fpc = "idle"
    /\ maxRetries = 0
    /\ timeout = 0
    /\ attempt = 0
    /\ now = 0
    /\ timers = {}
    /\ requests = 0
    /\ fresult = None
    /\ starts = <<>>
    /\ settled = <<>>
    /\ failures = <<>>

InitFetch ==
    /\ op = "fetchWithRetry"
    /\ arg = None
    /\ body = None
    /\ result = None
    /\ InitFetchVars
    /\ widget = None

\* a response whose reason phrase, which the server chooses, reads like one of
\* the messages of the caller
ReasonPhraseResponse(phrase) ==
    [kind |-> "response", status |-> 400, statusText |-> phrase]

\* the further responses of the endpoint the entry point talks to
EndpointResponses ==
    CASE op = "getCoordinates" -> {ReasonPhraseResponse(NeedleInvalidLocation)}
      [] op = "getWeatherData" -> {ReasonPhraseResponse(NeedleInvalidLatitude)}
      [] OTHER -> {}

FetchSteps ==
    \/ \E response \in Responses \cup EndpointResponses : FetchResolves(response)
    \/ FetchRejects
    \/ AbortTimerFires
    \/ StaleTimerFires
    \/ BackoffElapses
    \/ Tick

NextFetch ==
    \/ CallFetchWithRetry
    \/ FetchSteps

SpecFetch ==
    InitFetch /\ [][NextFetch]_vars

-----------------------------------------------------------------------------
\* NetworkUtils.validateCityName

\* the white space String.prototype.trim removes, as far as the inputs have it
IsWhiteSpace(c) ==
    c \in {" ", "\t", "\n"}

RECURSIVE TrimStart(_)
TrimStart(s) ==
    IF s # <<>> /\ IsWhiteSpace(Head(s)) THEN TrimStart(Tail(s)) ELSE s

RECURSIVE TrimEnd(_)
TrimEnd(s) ==
    IF s # <<>> /\ IsWhiteSpace(s[Len(s)]) THEN TrimEnd(SubSeq(s, 1, Len(s) - 1)) ELSE s

\* a variant that trims the front only
Trim_StartOnly(s) ==
    TrimStart(s)

\* String.prototype.trim
Trim(s) ==
    TrimEnd(TrimStart(s))

\* the character class of /[<>\"'&]/
DangerousChars ==
    {"<", ">", "\"", "'", "&"}

\* dangerousChars.test(trimmed)
DangerousCharsTest(s) ==
    \E i \in 1..Len(s) : s[i] \in DangerousChars

\* a variant that tests the characters before the lengths
validateCityName_CharsFirst(cityName) ==
    IF ~Truthy(cityName) \/ TypeOf(cityName) # "string"
    THEN ErrorOf("Error", MsgCityRequired)
    ELSE LET trimmed == Trim(cityName.str)
         IN  IF Len(trimmed) = 0 THEN ErrorOf("Error", MsgCityEmpty)
             ELSE IF DangerousCharsTest(trimmed) THEN ErrorOf("Error", MsgCityInvalidChars)
             ELSE IF Len(trimmed) < MinCityLength THEN ErrorOf("Error", MsgCityTooShort)
             ELSE IF Len(trimmed) > MaxCityLength THEN ErrorOf("Error", MsgCityTooLong)
             ELSE Value(Str(trimmed))

\* the value returned, or the error thrown
validateCityName(cityName) ==
    IF ~Truthy(cityName) \/ TypeOf(cityName) # "string"
    THEN ErrorOf("Error", MsgCityRequired)
    ELSE LET trimmed == Trim(cityName.str)
         IN  IF Len(trimmed) = 0 THEN ErrorOf("Error", MsgCityEmpty)
             ELSE IF Len(trimmed) < MinCityLength THEN ErrorOf("Error", MsgCityTooShort)
             ELSE IF Len(trimmed) > MaxCityLength THEN ErrorOf("Error", MsgCityTooLong)
             ELSE IF DangerousCharsTest(trimmed) THEN ErrorOf("Error", MsgCityInvalidChars)
             ELSE Value(Str(trimmed))

\* Inputs of the validator

\* every string over Alphabet up to this length is an input
MaxShortLength ==
    3

\* the long inputs carry up to this many blanks at either end
MaxPad ==
    1

Alphabet ==
    {" ", "\t", "a", ";", "<", ">", "\"", "'", "&"}

RECURSIVE StringsUpTo(_)
StringsUpTo(n) ==
    IF n = 0 THEN {<<>>}
    ELSE LET shorter == StringsUpTo(n - 1)
         IN  shorter \cup {Append(s, c) : s \in shorter, c \in Alphabet}

Repeat(c, n) ==
    [i \in 1..n |-> c]

\* strings around the maximal length: a run of letters, one of them possibly
\* replaced, between blanks
LongStrings ==
    {Repeat(" ", l) \o [Repeat("a", n) EXCEPT ![p] = c] \o Repeat(" ", r) :
        l \in 0..MaxPad, r \in 0..MaxPad,
        n \in (MaxCityLength - 1)..(MaxCityLength + 1),
        p \in {1, MaxCityLength \div 2, MaxCityLength - 1},
        c \in {"a", ";", "<", "&"}}

CityNameInputs ==
    {JsUndefined, JsNull, Num(0), Num(7)}
        \cup {Str(s) : s \in StringsUpTo(MaxShortLength) \cup LongStrings}

CallValidateCityName ==
    /\ op = "validateCityName"
    /\ result = None
    /\ result' = validateCityName(arg)
    /\ UNCHANGED <<widget, op, arg, body, fpc, maxRetries, timeout, attempt, now, timers, requests,
                   fresult, starts, settled, failures>>

InitValidate ==
    /\ op = "validateCityName"
    /\ arg \in CityNameInputs
    /\ body = None
    /\ result = None
    /\ InitFetchVars
    /\ widget = None

NextValidate ==
    CallValidateCityName

SpecValidate ==
    InitValidate /\ [][NextValidate]_vars

-----------------------------------------------------------------------------
\* WeatherService.getCoordinates and the coordinate check of getWeatherData

DigitValue(c) ==
    CHOOSE d \in 0..9 : DigitChars[d + 1] = c

IsDigit(c) ==
    \E d \in 0..9 : DigitChars[d + 1] = c

\* the value of the longest run of digits at the front of s, -1 if there is none
RECURSIVE LeadingDigits(_, _)
LeadingDigits(s, acc) ==
    IF s # <<>> /\ IsDigit(Head(s))
    THEN LeadingDigits(Tail(s), (IF acc < 0 THEN 0 ELSE 10 * acc) + DigitValue(Head(s)))
    ELSE acc

\* parseFloat, for numbers and for strings without fraction or exponent
ParseFloat(x) ==
    CASE x.t = "number" -> x
      [] x.t = "string" ->
            LET s == TrimStart(x.str)
                negative == s # <<>> /\ Head(s) = "-"
                signed == s # <<>> /\ Head(s) \in {"-", "+"}
                n == LeadingDigits(IF signed THEN Tail(s) ELSE s, -1)
            IN  IF n < 0 THEN JsNaN ELSE Num(IF negative THEN 0 - n ELSE n)
      [] OTHER -> JsNaN

\* isNaN of a number value
IsNaN(x) ==
    x.t = "nan"

\* a property of an object of the response, undefined when it is absent
Field(obj, name) ==
    IF name \in DOMAIN obj THEN obj[name] ELSE JsUndefined

\* a variant that tests the presence of the fields, not their truth value
LocationIsValid_Present(location) ==
    /\ Field(location, "latitude") # JsUndefined
    /\ Field(location, "longitude") # JsUndefined
    /\ Field(location, "name") # JsUndefined

\* the negation of !location.latitude || !location.longitude || !location.name
LocationIsValid(location) ==
    /\ Truthy(Field(location, "latitude"))
    /\ Truthy(Field(location, "longitude"))
    /\ Truthy(Field(location, "name"))

\* the object getCoordinates returns
LocationRecord(location) ==
    [latitude |-> ParseFloat(Field(location, "latitude")),
     longitude |-> ParseFloat(Field(location, "longitude")),
     name |-> Field(location, "name"),
     country |-> IF Truthy(Field(location, "country"))
                 THEN Field(location, "country") ELSE Str(StrUnknown),
     admin1 |-> IF Truthy(Field(location, "admin1"))
                THEN Field(location, "admin1") ELSE JsNull]

\* the catch block of getCoordinates
GetCoordinatesCatch(error) ==
    IF Includes(error.message, NeedleNoResults) \/ Includes(error.message, NeedleInvalidLocation)
    THEN error
    ELSE ErrorOf("Error", MsgUnableToFindLocation \o error.message)

\* the rejection of response.json() on a body that is not JSON
JsonSyntaxError ==
    ErrorOf("SyntaxError", <<"U", "n", "e", "x", "p", "e", "c", "t", "e", "d", " ",
                             "t", "o", "k", "e", "n">>)

\* the try block of getCoordinates from the parsed body on
GetCoordinatesFromBody(validatedCity, b) ==
    IF b.parse = "fails" THEN GetCoordinatesCatch(JsonSyntaxError)
    ELSE IF ~("results" \in DOMAIN b.data) \/ Len(b.data.results) = 0
    THEN GetCoordinatesCatch(
            ErrorOf("Error", MsgNoResultsHead \o validatedCity \o MsgNoResultsTail))
    ELSE LET location == b.data.results[1]
         IN  IF ~LocationIsValid(location)
             THEN GetCoordinatesCatch(ErrorOf("Error", MsgInvalidLocationData))
             ELSE Value(LocationRecord(location))

\* a variant that tests the two ranges only
CoordinateCheck_RangesOnly(latitude, longitude) ==
    IF NumLess(latitude, -90) \/ NumGreater(latitude, 90)
    THEN ErrorOf("Error", MsgInvalidLatitude)
    ELSE IF NumLess(longitude, -180) \/ NumGreater(longitude, 180)
    THEN ErrorOf("Error", MsgInvalidLongitude)
    ELSE None

\* the coordinate validation of getWeatherData: the error thrown, None if it passes
CoordinateCheck(latitude, longitude) ==
    IF ~Truthy(latitude) \/ ~Truthy(longitude) \/ IsNaN(latitude) \/ IsNaN(longitude)
    THEN ErrorOf("Error", MsgInvalidCoordinates)
    ELSE IF NumLess(latitude, -90) \/ NumGreater(latitude, 90)
    THEN ErrorOf("Error", MsgInvalidLatitude)
    ELSE IF NumLess(longitude, -180) \/ NumGreater(longitude, 180)
    THEN ErrorOf("Error", MsgInvalidLongitude)
    ELSE None

\* The geocoding responses explored

StrParis ==
    <<"P", "a", "r", "i", "s">>

LatitudeValues ==
    {Num(-91), Num(-90), Num(0), Num(48), Num(90), Num(91), Str(<<"4", "8">>), Str(<<"n", "/", "a">>)}

LongitudeValues ==
    {Num(-181), Num(-180), Num(0), Num(2), Num(180), Num(181), Str(<<"-", "2">>)}

NameValues ==
    {Str(StrParis), Str(<<>>)}

CountryValues ==
    {Str(<<"F", "r", "a", "n", "c", "e">>)}

\* the objects made of any subset of the four fields, with the values above
Locations ==
    UNION {
        UNION {
            UNION {
                {la @@ lo @@ na @@ co :
                    co \in {<<>>} \cup {[country |-> v] : v \in CountryValues}}
                : na \in {<<>>} \cup {[name |-> v] : v \in NameValues}}
            : lo \in {<<>>} \cup {[longitude |-> v] : v \in LongitudeValues}}
        : la \in {<<>>} \cup {[latitude |-> v] : v \in LatitudeValues}}

GeocodingBodies ==
    {[parse |-> "fails"], [parse |-> "ok", data |-> <<>>],
     [parse |-> "ok", data |-> [results |-> <<>>]]}
        \cup {[parse |-> "ok", data |-> [results |-> <<location>>]] : location \in Locations}

GeocodingCityNames ==
    {Str(StrParis), Str(<<" ", "N", "Y", " ">>), Str(<<"<">>), Str(<<>>), JsUndefined}

\* the call: validation, then the request, up to the first await
CallGetCoordinates ==
    /\ op = "getCoordinates"
    /\ fpc = "idle"
    /\ result = None
    /\ LET validated == validateCityName(arg)
       IN  IF validated.kind = "error"
           THEN /\ result' = GetCoordinatesCatch(validated)
                /\ UNCHANGED <<fpc, maxRetries, timeout, attempt, now, timers, requests, fresult,
                               starts, settled, failures>>
           ELSE /\ EnterFetchWithRetry(<<>>, DefaultMaxRetries)
                /\ UNCHANGED result
    /\ UNCHANGED <<widget, op, arg, body>>

\* fetchWithRetry has thrown: the catch block
GetCoordinatesFetchThrows ==
    /\ op = "getCoordinates"
    /\ fpc = "thrown"
    /\ result = None
    /\ result' = GetCoordinatesCatch(fresult)
    /\ UNCHANGED <<widget, op, arg, body, fpc, maxRetries, timeout, attempt, now, timers, requests,
                   fresult, starts, settled, failures>>

\* fetchWithRetry has returned: the body is read and examined
GetCoordinatesFetchReturns ==
    /\ op = "getCoordinates"
    /\ fpc = "returned"
    /\ result = None
    /\ \E b \in GeocodingBodies :
        /\ body' = b
        /\ result' = GetCoordinatesFromBody(validateCityName(arg).value.str, b)
    /\ UNCHANGED <<widget, op, arg, fpc, maxRetries, timeout, attempt, now, timers, requests,
                   fresult, starts, settled, failures>>

InitGeocoding ==
    /\ op = "getCoordinates"
    /\ arg \in GeocodingCityNames
    /\ body = None
    /\ result = None
    /\ InitFetchVars
    /\ widget = None

NextGeocoding ==
    \/ CallGetCoordinates
    \/ FetchSteps
    \/ GetCoordinatesFetchThrows
    \/ GetCoordinatesFetchReturns

SpecGeocoding ==
    InitGeocoding /\ [][NextGeocoding]_vars

-----------------------------------------------------------------------------
\* WeatherService.reverseGeocode

\* src/weather-widget/scripts/weather-widget.js:196: 'Unknown City'
StrUnknownCity ==
    <<"U","n","k","n","o","w","n"," ","C","i","t","y">>

\* src/weather-widget/scripts/weather-widget.js:202: 'Unknown Country'
StrUnknownCountry ==
    <<"U","n","k","n","o","w","n"," ","C","o","u","n","t","r","y">>

\* src/weather-widget/scripts/weather-widget.js:215: 'Your Location'
StrYourLocation ==
    <<"Y","o","u","r"," ","L","o","c","a","t","i","o","n">>

\* src/weather-widget/scripts/weather-widget.js:216: 'Current Location'
StrCurrentLocation ==
    <<"C","u","r","r","e","n","t"," ","L","o","c","a","t","i","o","n">>

\* a || b || ... || fallback over the properties of obj named in names
RECURSIVE FirstTruthy(_, _, _)
FirstTruthy(obj, names, fallback) ==
    IF names = <<>> THEN fallback
    ELSE IF Truthy(Field(obj, Head(names))) THEN Field(obj, Head(names))
    ELSE FirstTruthy(obj, Tail(names), fallback)

\* the record built from the address of the response
ReverseGeocodeFromAddress(address, latitude, longitude) ==
    [name |-> FirstTruthy(address, <<"city", "town", "village", "municipality", "hamlet">>,
                          Str(StrUnknownCity)),
     country |-> FirstTruthy(address, <<"country">>, Str(StrUnknownCountry)),
     admin1 |-> FirstTruthy(address, <<"state", "region", "province", "county">>, Str(<<>>)),
     latitude |-> latitude,
     longitude |-> longitude]

\* the fallback record
ReverseGeocodeFallback(latitude, longitude) ==
    [name |-> Str(StrYourLocation),
     country |-> Str(StrCurrentLocation),
     admin1 |-> Str(<<>>),
     latitude |-> latitude,
     longitude |-> longitude]

\* a variant whose catch block throws the error on
ReverseGeocodeCatch_Rethrow(error, latitude, longitude) ==
    error

\* the catch block of reverseGeocode
ReverseGeocodeCatch(error, latitude, longitude) ==
    Value(ReverseGeocodeFallback(latitude, longitude))

\* the try block of reverseGeocode from the parsed body on
ReverseGeocodeFromBody(b, latitude, longitude) ==
    IF b.parse = "fails" THEN ReverseGeocodeCatch(JsonSyntaxError, latitude, longitude)
    ELSE IF b.data # JsNull /\ "address" \in DOMAIN b.data
    THEN Value(ReverseGeocodeFromAddress(b.data.address, latitude, longitude))
    ELSE Value(ReverseGeocodeFallback(latitude, longitude))

StrLyon ==
    <<"L", "y", "o", "n">>

StrRhone ==
    <<"R", "h", "o", "n", "e">>

StrFrance ==
    <<"F", "r", "a", "n", "c", "e">>

\* the addresses explored
Addresses ==
    {<<>>,
     [city |-> Str(StrLyon), state |-> Str(StrRhone), country |-> Str(StrFrance)],
     [city |-> Str(<<>>), town |-> Str(StrLyon), county |-> Str(StrRhone)],
     [village |-> Str(StrLyon), town |-> Str(StrParis), region |-> Str(StrRhone)],
     [hamlet |-> Str(StrLyon), province |-> Str(StrRhone), county |-> Str(StrFrance)],
     [municipality |-> Str(StrLyon), hamlet |-> Str(StrParis), country |-> Str(<<>>)],
     [country |-> Str(StrFrance)]}

ReverseGeocodingBodies ==
    {[parse |-> "fails"], [parse |-> "ok", data |-> JsNull], [parse |-> "ok", data |-> <<>>]}
        \cup {[parse |-> "ok", data |-> [address |-> a]] : a \in Addresses}

\* the coordinate arguments explored: reverseGeocode does not examine them
ReverseGeocodeCoordinates ==
    {Num(48), Num(-91), JsUndefined}

ReverseGeocodePairs ==
    {[latitude |-> la, longitude |-> lo] :
        la \in ReverseGeocodeCoordinates, lo \in ReverseGeocodeCoordinates}

\* the call: the request with the User-Agent header, up to the first await
CallReverseGeocode ==
    /\ op = "reverseGeocode"
    /\ fpc = "idle"
    /\ result = None
    /\ EnterFetchWithRetry([headers |-> "User-Agent"], DefaultMaxRetries)
    /\ UNCHANGED <<widget, op, arg, body, result>>

\* fetchWithRetry has thrown: the catch block
ReverseGeocodeFetchThrows ==
    /\ op = "reverseGeocode"
    /\ fpc = "thrown"
    /\ result = None
    /\ result' = ReverseGeocodeCatch(fresult, arg.latitude, arg.longitude)
    /\ UNCHANGED <<widget, op, arg, body, fpc, maxRetries, timeout, attempt, now, timers, requests,
                   fresult, starts, settled, failures>>

\* fetchWithRetry has returned: the body is read and examined
ReverseGeocodeFetchReturns ==
    /\ op = "reverseGeocode"
    /\ fpc = "returned"
    /\ result = None
    /\ \E b \in ReverseGeocodingBodies :
        /\ body' = b
        /\ result' = ReverseGeocodeFromBody(b, arg.latitude, arg.longitude)
    /\ UNCHANGED <<widget, op, arg, fpc, maxRetries, timeout, attempt, now, timers, requests,
                   fresult, starts, settled, failures>>

InitReverseGeocode ==
    /\ op = "reverseGeocode"
    /\ arg \in ReverseGeocodePairs
    /\ body = None
    /\ result = None
    /\ InitFetchVars
    /\ widget = None

NextReverseGeocode ==
    \/ CallReverseGeocode
    \/ FetchSteps
    \/ ReverseGeocodeFetchThrows
    \/ ReverseGeocodeFetchReturns

SpecReverseGeocode ==
    InitReverseGeocode /\ [][NextReverseGeocode]_vars

-----------------------------------------------------------------------------
\* WeatherService.searchCities

\* a variant whose catch block throws the error on
SearchCitiesCatch_Rethrow(error) ==
    error

\* the catch block of searchCities
SearchCitiesCatch(error) ==
    Value(<<>>)

\* reading a property of null throws
NullPropertyError ==
    ErrorOf("TypeError", <<"n", "u", "l", "l">>)

\* the try block of searchCities from the parsed body on: data.results || []
SearchCitiesFromBody(b) ==
    IF b.parse = "fails" THEN SearchCitiesCatch(JsonSyntaxError)
    ELSE IF b.data = JsNull THEN SearchCitiesCatch(NullPropertyError)
    ELSE IF "results" \in DOMAIN b.data THEN Value(b.data.results)
    ELSE Value(<<>>)

SuggestionParis ==
    [name |-> Str(StrParis), latitude |-> Num(48), longitude |-> Num(2)]

\* the bodies explored: no JSON, null, no results, and lists of up to 5 results
SearchBodies ==
    {[parse |-> "fails"], [parse |-> "ok", data |-> JsNull], [parse |-> "ok", data |-> <<>>]}
        \cup {[parse |-> "ok", data |-> [results |-> [i \in 1..n |-> SuggestionParis]]] :
                n \in {0, 1, 5}}

\* the call: validation, then the request, up to the first await
CallSearchCities ==
    /\ op = "searchCities"
    /\ fpc = "idle"
    /\ result = None
    /\ LET validated == validateCityName(arg)
       IN  IF validated.kind = "error"
           THEN /\ result' = SearchCitiesCatch(validated)
                /\ UNCHANGED <<fpc, maxRetries, timeout, attempt, now, timers, requests, fresult,
                               starts, settled, failures>>
           ELSE /\ EnterFetchWithRetry(<<>>, DefaultMaxRetries)
                /\ UNCHANGED result
    /\ UNCHANGED <<widget, op, arg, body>>

\* fetchWithRetry has thrown: the catch block
SearchCitiesFetchThrows ==
    /\ op = "searchCities"
    /\ fpc = "thrown"
    /\ result = None
    /\ result' = SearchCitiesCatch(fresult)
    /\ UNCHANGED <<widget, op, arg, body, fpc, maxRetries, timeout, attempt, now, timers, requests,
                   fresult, starts, settled, failures>>

\* fetchWithRetry has returned: the body is read and examined
SearchCitiesFetchReturns ==
    /\ op = "searchCities"
    /\ fpc = "returned"
    /\ result = None
    /\ \E b \in SearchBodies :
        /\ body' = b
        /\ result' = SearchCitiesFromBody(b)
    /\ UNCHANGED <<widget, op, arg, fpc, maxRetries, timeout, attempt, now, timers, requests,
                   fresult, starts, settled, failures>>

InitSearchCities ==
    /\ op = "searchCities"
    /\ arg \in GeocodingCityNames
    /\ body = None
    /\ result = None
    /\ InitFetchVars
    /\ widget = None

NextSearchCities ==
    \/ CallSearchCities
    \/ FetchSteps
    \/ SearchCitiesFetchThrows
    \/ SearchCitiesFetchReturns

SpecSearchCities ==
    InitSearchCities /\ [][NextSearchCities]_vars

-----------------------------------------------------------------------------
\* WeatherService.getWeatherData

\* a variant that requires the current and the daily block only
PayloadIsValid_NoHourly(data) ==
    /\ Truthy(Field(data, "current"))
    /\ Truthy(Field(data, "daily"))

\* the negation of !data.current || !data.daily || !data.hourly
PayloadIsValid(data) ==
    /\ Truthy(Field(data, "current"))
    /\ Truthy(Field(data, "daily"))
    /\ Truthy(Field(data, "hourly"))

\* the catch block of getWeatherData
GetWeatherDataCatch(error) ==
    IF \/ Includes(error.message, NeedleInvalidCoordinates)
       \/ Includes(error.message, NeedleInvalidLatitude)
       \/ Includes(error.message, NeedleInvalidLongitude)
    THEN error
    ELSE ErrorOf("Error", MsgUnableToFetchWeather \o error.message)

\* a variant that returns the payload without examining it
GetWeatherDataFromBody_Unchecked(b) ==
    IF b.parse = "fails" THEN GetWeatherDataCatch(JsonSyntaxError)
    ELSE Value(b.data)

\* the try block of getWeatherData from the parsed body on
GetWeatherDataFromBody(b) ==
    IF b.parse = "fails" THEN GetWeatherDataCatch(JsonSyntaxError)
    ELSE IF b.data = JsNull THEN GetWeatherDataCatch(NullPropertyError)
    ELSE IF ~PayloadIsValid(b.data)
    THEN GetWeatherDataCatch(ErrorOf("Error", MsgInvalidWeatherFormat))
    ELSE Value(b.data)

\* a block of the payload: an object, which is truthy whatever it holds
JsObject(fields) ==
    [t |-> "object", fields |-> fields]

\* the payloads explored: any subset of the three blocks, and a null block
WeatherPayloads ==
    {[name \in blocks |-> JsObject(<<>>)] : blocks \in SUBSET {"current", "daily", "hourly"}}
        \cup {[current |-> JsObject(<<>>), daily |-> JsObject(<<>>), hourly |-> JsNull]}

WeatherBodies ==
    {[parse |-> "fails"], [parse |-> "ok", data |-> JsNull]}
        \cup {[parse |-> "ok", data |-> payload] : payload \in WeatherPayloads}

\* the latitude and longitude arguments explored
WeatherLatitudes ==
    {Num(-91), Num(-90), Num(0), Num(41), Num(90), Num(91),
     JsNaN, JsInfinity(1), JsInfinity(-1), JsUndefined}

WeatherLongitudes ==
    {Num(-181), Num(-180), Num(0), Num(-74), Num(180), Num(181),
     JsNaN, JsInfinity(1), JsInfinity(-1), JsUndefined}

WeatherPairs ==
    {[latitude |-> la, longitude |-> lo] : la \in WeatherLatitudes, lo \in WeatherLongitudes}

\* the call: the coordinate validation, then the request, up to the first await
CallGetWeatherData ==
    /\ op = "getWeatherData"
    /\ fpc = "idle"
    /\ result = None
    /\ LET checked == CoordinateCheck(arg.latitude, arg.longitude)
       IN  IF checked # None
           THEN /\ result' = GetWeatherDataCatch(checked)
                /\ UNCHANGED <<fpc, maxRetries, timeout, attempt, now, timers, requests, fresult,
                               starts, settled, failures>>
           ELSE /\ EnterFetchWithRetry(<<>>, DefaultMaxRetries)
                /\ UNCHANGED result
    /\ UNCHANGED <<widget, op, arg, body>>

\* fetchWithRetry has thrown: the catch block
GetWeatherDataFetchThrows ==
    /\ op = "getWeatherData"
    /\ fpc = "thrown"
    /\ result = None
    /\ result' = GetWeatherDataCatch(fresult)
    /\ UNCHANGED <<widget, op, arg, body, fpc, maxRetries, timeout, attempt, now, timers, requests,
                   fresult, starts, settled, failures>>

\* fetchWithRetry has returned: the body is read and examined
GetWeatherDataFetchReturns ==
    /\ op = "getWeatherData"
    /\ fpc = "returned"
    /\ result = None
    /\ \E b \in WeatherBodies :
        /\ body' = b
        /\ result' = GetWeatherDataFromBody(b)
    /\ UNCHANGED <<widget, op, arg, fpc, maxRetries, timeout, attempt, now, timers, requests,
                   fresult, starts, settled, failures>>

InitWeatherData ==
    /\ op = "getWeatherData"
    /\ arg \in WeatherPairs
    /\ body = None
    /\ result = None
    /\ InitFetchVars
    /\ widget = None

NextWeatherData ==
    \/ CallGetWeatherData
    \/ FetchSteps
    \/ GetWeatherDataFetchThrows
    \/ GetWeatherDataFetchReturns

SpecWeatherData ==
    InitWeatherData /\ [][NextWeatherData]_vars

-----------------------------------------------------------------------------
\* WeatherWidget.loadWeather and WeatherWidget.showError
\*
\* One load is followed at a time, with the whole of fetchWithRetry under each
\* of its two requests.  The user starts a load when the widget is at rest: no
\* load in flight, no automatic retry pending.  The clock restarts at each call
\* of fetchWithRetry, and the timers a finished call has left armed are let go
\* there: their callbacks abort controllers whose requests have settled.

\* the number of loads followed
MaxLoads ==
    2

\* the delay of the automatic retry
AutoRetryDelay ==
    5000

AutoRetryTimer(load, due) ==
    [kind |-> "autoRetry", att |-> load, due |-> due]

\* the widget after its constructor, its container untouched
WidgetInit ==
    [pc |-> "ready", view |-> "blank", title |-> <<>>, details |-> <<>>,
     currentLocationInfo |-> JsNull, locationInfo |-> None, shown |-> None,
     loads |-> 0, automatic |-> FALSE, geocodingRequests |-> 0,
     showHourlyForecast |-> FALSE, forecast |-> "none"]

\* the timers that outlive a call of fetchWithRetry, on the clock restarted at 0
Carried(pending) ==
    {[t EXCEPT !.due = t.due - now] : t \in {p \in pending : p.kind = "autoRetry"}}

\* the userMessage the catch block of loadWeather picks
UserMessage(error, cityName) ==
    IF Includes(error.message, NeedleValidCityName) THEN MsgInvalidCityName
    ELSE IF Includes(error.message, NeedleUnableToFindCoordinates)
    THEN MsgCityNotFound \o cityName.str \o <<"\"">>
    ELSE IF Includes(error.message, NeedleNetwork) \/ Includes(error.message, NeedleFetch)
    THEN MsgNetworkProblem
    ELSE IF Includes(error.message, NeedleTimeout) THEN MsgRequestTimedOut
    ELSE MsgFailedToLoad

\* a variant that retries whatever the message
SchedulesAutoRetry_Always(message) ==
    TRUE

\* the test showError makes before it arms the timer of the automatic retry
SchedulesAutoRetry(message) ==
    \/ Includes(message, NeedleNetwork)
    \/ Includes(message, NeedleTimeout)
    \/ Includes(message, NeedleFetch)

\* showError on widget w at time clock, while pending timers remain
ShowError(w, title, message, pending, clock) ==
    /\ widget' = [w EXCEPT !.view = "error", !.title = title, !.details = message]
    /\ timers' = IF SchedulesAutoRetry(message)
                 THEN pending \cup {AutoRetryTimer(w.loads, clock + AutoRetryDelay)}
                 ELSE pending

\* a variant that lets the error go to the caller, the container left as it is
LoadCatch_Rethrows(w, error, cityName, pending, clock) ==
    /\ widget' = [w EXCEPT !.pc = "ready"]
    /\ timers' = pending
    /\ result' = error

\* the catch block of loadWeather, which ends the load
LoadCatch(w, error, cityName, pending, clock) ==
    /\ ShowError([w EXCEPT !.pc = "ready"], UserMessage(error, cityName), error.message,
                 pending, clock)
    /\ result' = Undefined

\* a call of fetchWithRetry after issued requests of the load: the loop runs
\* to its first await
FreshFetchWithRetry(options, m, pending, issued) ==
    /\ maxRetries' = m
    /\ timeout' = DefaultOptionsTimeout(options)
    /\ now' = 0
    /\ settled' = <<>>
    /\ failures' = <<>>
    /\ IF LoopContinues(1, m)
       THEN /\ attempt' = 1
            /\ timers' = Carried(pending) \cup {AbortTimer(1, DefaultOptionsTimeout(options))}
            /\ requests' = issued + 1
            /\ starts' = <<0>>
            /\ fpc' = "fetching"
            /\ fresult' = None
       ELSE /\ attempt' = 0
            /\ timers' = Carried(pending)
            /\ requests' = issued
            /\ starts' = <<>>
            /\ fpc' = "returned"
            /\ fresult' = Undefined

\* loadWeather(cityName) up to its first await, or to its end when the name is
\* refused: showLoading, the validation, then getCoordinates up to its request
StartLoadOf(current, cityName, pending, automatic) ==
    LET w == [current EXCEPT !.pc = "geocoding", !.view = "loading", !.loads = @ + 1,
                            !.automatic = automatic, !.locationInfo = None,
                            !.geocodingRequests = 0]
        validated == validateCityName(cityName)
    IN  /\ current.loads < MaxLoads
        /\ arg' = cityName
        /\ body' = None
        /\ IF validated.kind = "error" \/ ~Truthy(validated.value)
           THEN /\ LoadCatch(w, IF validated.kind = "error" THEN validated
                                ELSE ErrorOf("Error", MsgEnterValidCity),
                             cityName, Carried(pending), 0)
                /\ fpc' = "idle"
                /\ fresult' = None
                /\ attempt' = 0
                /\ requests' = 0
                /\ now' = 0
                /\ starts' = <<>>
                /\ settled' = <<>>
                /\ failures' = <<>>
                /\ UNCHANGED <<maxRetries, timeout>>
           ELSE /\ widget' = w
                /\ result' = None
                /\ FreshFetchWithRetry(<<>>, DefaultMaxRetries, pending, 0)
        /\ UNCHANGED op

\* loadWeather(cityName) called on the widget as it stands
StartLoad(cityName, pending, automatic) ==
    StartLoadOf(widget, cityName, pending, automatic)

\* the city names the user asks for: one that passes the validation, one that fails
LoadCityNames ==
    {Str(StrParis), Str(<<"<">>)}

\* the geocoding bodies explored: a location, a location out of range, no result
LoadGeocodingBodies ==
    {[parse |-> "ok", data |-> [results |-> <<[latitude |-> Num(la), longitude |-> Num(2),
                                               name |-> Str(StrParis)]>>]] : la \in {48, 91}}
        \cup {[parse |-> "ok", data |-> [results |-> <<>>]]}

\* the weather bodies explored: a payload with its three blocks, one without hourly
LoadWeatherBodies ==
    {[parse |-> "ok", data |-> [name \in blocks |-> JsObject(<<>>)]] :
        blocks \in {{"current", "daily", "hourly"}, {"current", "daily"}}}

\* the responses explored under a load
LoadResponses ==
    {response \in Responses : response.status \in {200, 404}}

AutoRetryPending ==
    \E t \in timers : t.kind = "autoRetry"

\* the user asks for the weather of a city
UserLoadWeather ==
    /\ op = "loadWeather"
    /\ widget.pc = "ready"
    /\ ~AutoRetryPending
    /\ \E cityName \in LoadCityNames : StartLoad(cityName, timers, FALSE)

\* the fetch of getCoordinates has thrown: its catch block, then that of loadWeather
LoadGeocodingThrows ==
    /\ op = "loadWeather"
    /\ widget.pc = "geocoding"
    /\ fpc = "thrown"
    /\ LoadCatch([widget EXCEPT !.geocodingRequests = requests], GetCoordinatesCatch(fresult),
                 arg, timers, now)
    /\ UNCHANGED <<op, arg, body, fpc, maxRetries, timeout, attempt, now, requests, fresult,
                   starts, settled, failures>>

\* the fetch of getCoordinates has returned: the body is read, the location is
\* recorded, and getWeatherData runs up to its request
LoadGeocodingReturns ==
    /\ op = "loadWeather"
    /\ widget.pc = "geocoding"
    /\ fpc = "returned"
    /\ \E b \in LoadGeocodingBodies :
        LET w == [widget EXCEPT !.geocodingRequests = requests]
            located == GetCoordinatesFromBody(validateCityName(arg).value.str, b)
        IN  /\ body' = b
            /\ IF located.kind = "error"
               THEN /\ LoadCatch(w, located, arg, timers, now)
                    /\ UNCHANGED <<fpc, maxRetries, timeout, attempt, now, requests, fresult,
                                   starts, settled, failures>>
               ELSE LET resolved == [w EXCEPT !.locationInfo = located.value,
                                              !.currentLocationInfo = located.value]
                        checked == CoordinateCheck(located.value.latitude,
                                                   located.value.longitude)
                    IN  IF checked # None
                        THEN /\ LoadCatch(resolved, GetWeatherDataCatch(checked), arg, timers, now)
                             /\ UNCHANGED <<fpc, maxRetries, timeout, attempt, now, requests,
                                            fresult, starts, settled, failures>>
                        ELSE /\ widget' = [resolved EXCEPT !.pc = "weather"]
                             /\ FreshFetchWithRetry(<<>>, DefaultMaxRetries, timers, requests)
                             /\ UNCHANGED result
    /\ UNCHANGED <<op, arg>>

\* the fetch of getWeatherData has thrown: its catch block, then that of loadWeather
LoadWeatherThrows ==
    /\ op = "loadWeather"
    /\ widget.pc = "weather"
    /\ fpc = "thrown"
    /\ LoadCatch(widget, GetWeatherDataCatch(fresult), arg, timers, now)
    /\ UNCHANGED <<op, arg, body, fpc, maxRetries, timeout, attempt, now, requests, fresult,
                   starts, settled, failures>>

\* the forecast list render fills in: the hourly entries or the daily ones
ForecastShown(w) ==
    IF w.showHourlyForecast THEN "hourly" ELSE "daily"

\* the fetch of getWeatherData has returned: the payload is read and rendered
LoadWeatherReturns ==
    /\ op = "loadWeather"
    /\ widget.pc = "weather"
    /\ fpc = "returned"
    /\ \E b \in LoadWeatherBodies :
        LET weatherData == GetWeatherDataFromBody(b)
        IN  /\ body' = b
            /\ IF weatherData.kind = "error"
               THEN LoadCatch(widget, weatherData, arg, timers, now)
               ELSE /\ widget' = [widget EXCEPT !.pc = "ready", !.view = "rendered",
                                                !.title = <<>>, !.details = <<>>,
                                                !.shown = widget.locationInfo,
                                                !.forecast = ForecastShown(widget)]
                    /\ result' = Undefined
                    /\ UNCHANGED timers
    /\ UNCHANGED <<op, arg, fpc, maxRetries, timeout, attempt, now, requests, fresult,
                   starts, settled, failures>>

\* the timer of the automatic retry fires: a load of the last location, if any
AutoRetryFires ==
    /\ op = "loadWeather"
    /\ \E t \in timers :
        /\ t.kind = "autoRetry" /\ t.due <= now
        /\ IF widget.currentLocationInfo # JsNull
           THEN StartLoad(widget.currentLocationInfo.name, timers \ {t}, TRUE)
           ELSE /\ timers' = timers \ {t}
                /\ UNCHANGED <<widget, op, arg, body, result, fpc, maxRetries, timeout, attempt,
                               now, requests, fresult, starts, settled, failures>>

\* a click on the forecast toggle of the rendered view: the flag is flipped,
\* then updateForecastSection loads the current location again
ToggleForecastView ==
    /\ op = "loadWeather"
    /\ widget.view = "rendered"
    /\ LET flipped == [widget EXCEPT !.showHourlyForecast = ~@]
       IN  IF flipped.currentLocationInfo # JsNull
           THEN StartLoadOf(flipped, flipped.currentLocationInfo.name, timers, FALSE)
           ELSE /\ widget' = flipped
                /\ UNCHANGED <<op, arg, body, result, fpc, maxRetries, timeout, attempt, now,
                               timers, requests, fresult, starts, settled, failures>>

InitLoad ==
    /\ op = "loadWeather"
    /\ arg = None
    /\ body = None
    /\ result = None
    /\ InitFetchVars
    /\ widget = WidgetInit

NextLoad ==
    \/ UserLoadWeather
    \/ \E response \in LoadResponses : FetchResolves(response)
    \/ FetchRejects
    \/ AbortTimerFires
    \/ StaleTimerFires
    \/ BackoffElapses
    \/ Tick
    \/ LoadGeocodingThrows
    \/ LoadGeocodingReturns
    \/ LoadWeatherThrows
    \/ LoadWeatherReturns
    \/ AutoRetryFires
    \/ ToggleForecastView

SpecLoad ==
    InitLoad /\ [][NextLoad]_vars

\* the fetch awaited by loadWeather has settled: its continuation can run
Resumable ==
    /\ op = "loadWeather"
    /\ widget.pc \in {"geocoding", "weather"}
    /\ fpc \in {"returned", "thrown"}

\* the continuation of loadWeather after either of its two awaits
LoadContinuation ==
    \/ LoadGeocodingThrows
    \/ LoadGeocodingReturns
    \/ LoadWeatherThrows
    \/ LoadWeatherReturns

\* The event loop runs every timer callback that is due and every continuation
\* whose promise has settled, and time passes.  Nothing is assumed of the
\* network: a request may stay without an answer.  The last conjunct is the
\* weak fairness of LoadContinuation, written with its enabling condition,
\* Resumable, and with the change of widget.pc that marks its steps.
LoadFairness ==
    /\ WF_vars(Tick)
    /\ WF_vars(AbortTimerFires)
    /\ WF_vars(StaleTimerFires)
    /\ WF_vars(BackoffElapses)
    /\ ([]<>~Resumable \/ []<><<Resumable /\ widget'.pc # widget.pc>>_vars)

SpecLoadFair ==
    SpecLoad /\ LoadFairness

-----------------------------------------------------------------------------
\* WeatherDataProcessor: the tables and the two forecast builders
\*
\* Labels that are only displayed are strings; an icon is named by the code
\* point of its first character.  Temperatures and wind speeds are in tenths.
\* A time is in minutes: the local minutes since the first midnight of the
\* series for an hourly time, which the payload gives as a local date and
\* time, and the minutes since 1970-01-01T00:00Z for a daily time, which the
\* payload gives as a date alone and new Date reads as midnight UTC.

weatherCodes ==
    0 :> "Clear sky" @@
    1 :> "Mainly clear" @@
    2 :> "Partly cloudy" @@
    3 :> "Overcast" @@
    45 :> "Fog" @@
    48 :> "Depositing rime fog" @@
    51 :> "Light drizzle" @@
    53 :> "Moderate drizzle" @@
    55 :> "Dense drizzle" @@
    56 :> "Light freezing drizzle" @@
    57 :> "Dense freezing drizzle" @@
    61 :> "Slight rain" @@
    63 :> "Moderate rain" @@
    65 :> "Heavy rain" @@
    66 :> "Light freezing rain" @@
    67 :> "Heavy freezing rain" @@
    71 :> "Slight snow fall" @@
    73 :> "Moderate snow fall" @@
    75 :> "Heavy snow fall" @@
    77 :> "Snow grains" @@
    80 :> "Slight rain showers" @@
    81 :> "Moderate rain showers" @@
    82 :> "Violent rain showers" @@
    85 :> "Slight snow showers" @@
    86 :> "Heavy snow showers" @@
    95 :> "Thunderstorm" @@
    96 :> "Thunderstorm with slight hail" @@
    99 :> "Thunderstorm with heavy hail"

\* a variant that takes the code 0 for a missing code
getWeatherDescription_ZeroMissing(code) ==
    IF code # 0 /\ code \in DOMAIN weatherCodes THEN weatherCodes[code] ELSE "Unknown"

\* weatherCodes[code] || 'Unknown'
getWeatherDescription(code) ==
    IF code \in DOMAIN weatherCodes THEN weatherCodes[code] ELSE "Unknown"

iconMap ==
    0 :> "U+2600" @@
    1 :> "U+1F324" @@
    2 :> "U+26C5" @@
    3 :> "U+2601" @@
    45 :> "U+1F32B" @@
    48 :> "U+1F32B" @@
    51 :> "U+1F326" @@
    53 :> "U+1F326" @@
    55 :> "U+1F326" @@
    56 :> "U+1F326" @@
    57 :> "U+1F326" @@
    61 :> "U+1F327" @@
    63 :> "U+1F327" @@
    65 :> "U+1F327" @@
    66 :> "U+1F327" @@
    67 :> "U+1F327" @@
    71 :> "U+1F328" @@
    73 :> "U+1F328" @@
    75 :> "U+1F328" @@
    77 :> "U+1F328" @@
    80 :> "U+1F326" @@
    81 :> "U+1F326" @@
    82 :> "U+1F326" @@
    85 :> "U+1F328" @@
    86 :> "U+1F328" @@
    95 :> "U+26C8" @@
    96 :> "U+26C8" @@
    99 :> "U+26C8"

\* iconMap[code] || the question mark
getWeatherIcon(code) ==
    IF code \in DOMAIN iconMap THEN iconMap[code] ELSE "U+2753"

\* Math.round of a value in tenths: the nearest integer, a half going upwards
MathRound(tenths) ==
    (tenths + 5) \div 10

\* Date.prototype.getHours of a local time
GetHours(minutes) ==
    (minutes \div 60) % 24

TwoDigits(n) ==
    IF n < 10 THEN <<"0">> \o DecimalChars(n) ELSE DecimalChars(n)

\* toLocaleTimeString with 2-digit hour and minute, in a 24-hour locale
ToLocaleTimeString(minutes) ==
    TwoDigits(GetHours(minutes)) \o <<":">> \o TwoDigits(minutes % 60)

\* the number of hours the hourly forecast looks ahead
HoursAhead ==
    12

\* a variant that counts from the start of the series
HourIndex_FromZero(currentHour, i) ==
    i

HourIndex(currentHour, i) ==
    currentHour + i

\* the object pushed for index hourIndex, counted from 0 as in the source
HourlyEntry(hourly, hourIndex) ==
    [time |-> ToLocaleTimeString(hourly.time[hourIndex + 1]),
     hour |-> GetHours(hourly.time[hourIndex + 1]),
     temperature |-> MathRound(hourly.temperature_2m[hourIndex + 1]),
     weatherCode |-> hourly.weather_code[hourIndex + 1],
     icon |-> getWeatherIcon(hourly.weather_code[hourIndex + 1])]

RECURSIVE HourlyLoop(_, _, _, _)

\* the for loop from i on, hourlyForecast holding what has been pushed
HourlyLoop(hourly, currentHour, i, hourlyForecast) ==
    IF ~(i < HoursAhead) THEN hourlyForecast
    ELSE LET hourIndex == HourIndex(currentHour, i)
         IN  HourlyLoop(hourly, currentHour, i + 1,
                        IF hourIndex < Len(hourly.time)
                        THEN Append(hourlyForecast, HourlyEntry(hourly, hourIndex))
                        ELSE hourlyForecast)

processHourlyForecast(hourly, currentHour) ==
    HourlyLoop(hourly, currentHour, 0, <<>>)

\* the longest hourly series explored
MaxHourlyLength ==
    36

\* the codes a series runs through, one of them outside the tables
SeriesCodes ==
    <<0, 3, 61, 4, 95>>

\* an hourly series of the given length: hour after hour from a midnight on,
\* no two neighbouring indices alike
HourlySeries(length, shift) ==
    [time |-> [k \in 1..length |-> (k - 1) * 60],
     temperature_2m |-> [k \in 1..length |-> shift + 7 * (k - 1)],
     weather_code |-> [k \in 1..length |-> SeriesCodes[((k + shift) % Len(SeriesCodes)) + 1]]]

HourlyInputs ==
    {[hourly |-> HourlySeries(length, shift), currentHour |-> currentHour] :
        length \in 0..MaxHourlyLength, shift \in {-18, 3}, currentHour \in 0..23}

CallProcessHourlyForecast ==
    /\ op = "processHourlyForecast"
    /\ result = None
    /\ result' = Value(processHourlyForecast(arg.hourly, arg.currentHour))
    /\ UNCHANGED <<widget, op, arg, body, fpc, maxRetries, timeout, attempt, now, timers,
                   requests, fresult, starts, settled, failures>>

InitHourly ==
    /\ op = "processHourlyForecast"
    /\ arg \in HourlyInputs
    /\ body = None
    /\ result = None
    /\ InitFetchVars
    /\ widget = None

NextHourly ==
    CallProcessHourlyForecast

SpecHourly ==
    InitHourly /\ [][NextHourly]_vars

-----------------------------------------------------------------------------
\* WeatherDataProcessor.processForecast
\*
\* A daily time is given by the payload as a date alone, modelled by its day
\* number since 1970-01-01.  The time zone of the browser, which getDay reads,
\* is a second argument of the model: its offset in minutes east of UTC.

\* new Date of a date-only string: midnight UTC of that day
NewDate(dayNumber) ==
    dayNumber * 1440

\* Date.prototype.getDay in the zone of the browser; 1970-01-01 was a Thursday
GetDay(date, offset) ==
    (((date + offset) \div 1440) + 4) % 7

getDayName(date, offset) ==
    <<"Sunday", "Monday", "Tuesday", "Wednesday", "Thursday", "Friday", "Saturday">>[
        GetDay(date, offset) + 1]

getShortDayName(date, offset) ==
    <<"Sun", "Mon", "Tue", "Wed", "Thu", "Fri", "Sat">>[GetDay(date, offset) + 1]

\* a variant that keeps the value as it is
OrZero_AsIs(v) ==
    v

\* v || 0
OrZero(v) ==
    IF Truthy(v) THEN v ELSE Num(0)

\* the object pushed for index i, counted from 0 as in the source
DailyEntry(daily, i, offset) ==
    LET date == NewDate(daily.time[i + 1])
    IN  [date |-> date,
         dayName |-> getDayName(date, offset),
         shortDay |-> getShortDayName(date, offset),
         weatherCode |-> daily.weather_code[i + 1],
         description |-> getWeatherDescription(daily.weather_code[i + 1]),
         icon |-> getWeatherIcon(daily.weather_code[i + 1]),
         maxTemp |-> MathRound(daily.temperature_2m_max[i + 1]),
         minTemp |-> MathRound(daily.temperature_2m_min[i + 1]),
         feelsLikeMax |-> MathRound(daily.apparent_temperature_max[i + 1]),
         feelsLikeMin |-> MathRound(daily.apparent_temperature_min[i + 1]),
         precipitation |-> OrZero(daily.precipitation_sum[i + 1]),
         maxWind |-> MathRound(daily.wind_speed_10m_max[i + 1])]

RECURSIVE DailyLoop(_, _, _, _)

\* the for loop from i on, forecast holding what has been pushed
DailyLoop(daily, offset, i, forecast) ==
    IF ~(i < Len(daily.time)) THEN forecast
    ELSE DailyLoop(daily, offset, i + 1, Append(forecast, DailyEntry(daily, i, offset)))

processForecast(data, offset) ==
    DailyLoop(data.daily, offset, 1, <<>>)

\* the longest daily series explored
MaxDailyLength ==
    7

\* the precipitation sums a series runs through: none, missing, some
SeriesPrecipitation ==
    <<Num(0), JsNull, Num(12)>>

\* a daily series of the given length from firstDay on, no two indices alike
DailySeries(length, firstDay, wet) ==
    [time |-> [k \in 1..length |-> firstDay + k - 1],
     weather_code |-> [k \in 1..length |-> SeriesCodes[((k + wet) % Len(SeriesCodes)) + 1]],
     temperature_2m_max |-> [k \in 1..length |-> 215 + 13 * k],
     temperature_2m_min |-> [k \in 1..length |-> 13 * k - 45],
     apparent_temperature_max |-> [k \in 1..length |-> 195 + 13 * k],
     apparent_temperature_min |-> [k \in 1..length |-> 13 * k - 75],
     precipitation_sum |-> [k \in 1..length |->
                               SeriesPrecipitation[((k + wet) % Len(SeriesPrecipitation)) + 1]],
     wind_speed_10m_max |-> [k \in 1..length |-> 104 + 9 * k]]

\* the first days explored: the week from Monday 2024-01-01 on
FirstDays ==
    {19723 + d : d \in 0..6}

\* the zones explored: New York in winter, UTC, Tokyo
ZoneOffsets ==
    {-300, 0, 540}

DailyInputs ==
    {[data |-> [daily |-> DailySeries(length, firstDay, wet)], offset |-> offset] :
        length \in 0..MaxDailyLength, firstDay \in FirstDays, wet \in 0..2,
        offset \in ZoneOffsets}

CallProcessForecast ==
    /\ op = "processForecast"
    /\ result = None
    /\ result' = Value(processForecast(arg.data, arg.offset))
    /\ UNCHANGED <<widget, op, arg, body, fpc, maxRetries, timeout, attempt, now, timers,
                   requests, fresult, starts, settled, failures>>

InitDaily ==
    /\ op = "processForecast"
    /\ arg \in DailyInputs
    /\ body = None
    /\ result = None
    /\ InitFetchVars
    /\ widget = None

NextDaily ==
    CallProcessForecast

SpecDaily ==
    InitDaily /\ [][NextDaily]_vars

-----------------------------------------------------------------------------
\* WeatherDataProcessor.getWindDirection
\*
\* A bearing is in tenths of a degree.

directions ==
    <<"N", "NNE", "NE", "ENE", "E", "ESE", "SE", "SSE", "S", "SSW", "SW", "WSW", "W", "WNW",
      "NW", "NNW">>

\* a variant that truncates where the source rounds
WindIndex_Truncated(degrees) ==
    ((2 * degrees) \div 450) % 16

\* Math.round(degrees / 22.5) % 16: the quotient is degrees / 225 in tenths, and
\* its rounding, a half going upwards, the floor of (2 * degrees + 225) / 450
WindIndex(degrees) ==
    ((2 * degrees + 225) \div 450) % 16

getWindDirection(degrees) ==
    directions[WindIndex(degrees) + 1]

\* the largest bearing explored, in degrees
MaxBearing ==
    360

CallGetWindDirection ==
    /\ op = "getWindDirection"
    /\ result = None
    /\ result' = Value(getWindDirection(arg))
    /\ UNCHANGED <<widget, op, arg, body, fpc, maxRetries, timeout, attempt, now, timers,
                   requests, fresult, starts, settled, failures>>

InitWind ==
    /\ op = "getWindDirection"
    /\ arg \in 0..(10 * MaxBearing)
    /\ body = None
    /\ result = None
    /\ InitFetchVars
    /\ widget = None

NextWind ==
    CallGetWindDirection

SpecWind ==
    InitWind /\ [][NextWind]_vars

-----------------------------------------------------------------------------
\* getWeatherDescription and getWeatherIcon called on their own

\* the largest weather code explored
MaxWeatherCode ==
    100

CallGetWeatherDescription ==
    /\ op = "getWeatherDescription"
    /\ result = None
    /\ result' = Value(getWeatherDescription(arg))
    /\ UNCHANGED <<widget, op, arg, body, fpc, maxRetries, timeout, attempt, now, timers,
                   requests, fresult, starts, settled, failures>>

CallGetWeatherIcon ==
    /\ op = "getWeatherIcon"
    /\ result = None
    /\ result' = Value(getWeatherIcon(arg))
    /\ UNCHANGED <<widget, op, arg, body, fpc, maxRetries, timeout, attempt, now, timers,
                   requests, fresult, starts, settled, failures>>

InitCodes ==
    /\ op \in {"getWeatherDescription", "getWeatherIcon"}
    /\ arg \in -1..MaxWeatherCode
    /\ body = None
    /\ result = None
    /\ InitFetchVars
    /\ widget = None

NextCodes ==
    \/ CallGetWeatherDescription
    \/ CallGetWeatherIcon

SpecCodes ==
    InitCodes /\ [][NextCodes]_vars

-----------------------------------------------------------------------------
\* WeatherWidget.loadWeather called while other loads are suspended
\*
\* loadWeather is a public method: nothing in it refuses or cancels a call made
\* while an earlier one is suspended at an await.  Every call is followed with
\* its own cityName and locationInfo, and a call of fetchWithRetry is taken by
\* the way it ends.  The widget is then the record
\*   [view, title, details, shown, currentLocationInfo, loads, flights, finished]
\* where flights[k] is the k-th call of loadWeather and finished is the history
\* of the calls that have ended, in the order in which they ended.

\* the number of calls of loadWeather followed
MaxOverlapLoads ==
    2

\* the widget after its constructor, no call of loadWeather made
OverlapInit ==
    [view |-> "blank", title |-> <<>>, details |-> <<>>, shown |-> None,
     currentLocationInfo |-> JsNull, loads |-> 0, flights |-> <<>>, finished |-> <<>>]

\* the ways a call fetchWithRetry(url, {}, 3) ends: it returns a response that
\* is ok, or throws what its catch block surfaces on the last attempt
FetchWithRetryEnds ==
    {response \in LoadResponses : ResponseOk(response)}
        \cup {SurfacedError(error) :
                error \in {AbortError, NetworkFault}
                            \cup {HttpError(response) :
                                    response \in {r \in LoadResponses : ~ResponseOk(r)}}}

\* the city names asked for: two that pass the validation, one that fails
OverlapCityNames ==
    {Str(StrParis), Str(StrLyon), Str(<<"<">>)}

\* the geocoding bodies explored for a city: the city, the city out of range,
\* no result
OverlapGeocodingBodies(cityName) ==
    {[parse |-> "ok", data |-> [results |-> <<[latitude |-> Num(la), longitude |-> Num(2),
                                               name |-> cityName]>>]] : la \in {48, 91}}
        \cup {[parse |-> "ok", data |-> [results |-> <<>>]]}

\* call id has ended with the view it wrote
Ended(w, id, view, message) ==
    [w EXCEPT !.flights[id].pc = "done",
              !.finished = Append(@, [load |-> id, view |-> view, message |-> message])]

\* showError called by call id at time clock, while pending timers remain
ShowErrorOfLoad(w, id, title, message, pending, clock) ==
    /\ widget' = [w EXCEPT !.view = "error", !.title = title, !.details = message]
    /\ timers' = IF SchedulesAutoRetry(message)
                 THEN pending \cup {AutoRetryTimer(id, clock + AutoRetryDelay)}
                 ELSE pending

\* the catch block of loadWeather in call id, which ends the call
FlightCatch(w, id, error, pending, clock) ==
    ShowErrorOfLoad(Ended(w, id, "error", error.message), id,
                    UserMessage(error, w.flights[id].cityName), error.message, pending, clock)

\* a variant in which only the call made last writes the container
RenderFlight_LatestOnly(w, id) ==
    IF id = w.loads
    THEN [Ended(w, id, "rendered", <<>>) EXCEPT !.view = "rendered", !.title = <<>>,
                                                 !.details = <<>>,
                                                 !.shown = w.flights[id].locationInfo]
    ELSE Ended(w, id, "rendered", <<>>)

\* render called by call id with the view model built from its own locationInfo
RenderFlight(w, id) ==
    [Ended(w, id, "rendered", <<>>) EXCEPT !.view = "rendered", !.title = <<>>,
                                            !.details = <<>>,
                                            !.shown = w.flights[id].locationInfo]

\* loadWeather(cityName) up to its first await, or to its end when the name is
\* refused: showLoading, the validation, then getCoordinates up to its request
BeginLoad(cityName, pending, automatic) ==
    LET id == widget.loads + 1
        w == [widget EXCEPT !.view = "loading", !.loads = id,
                            !.flights = Append(@, [pc |-> "geocoding", cityName |-> cityName,
                                                   locationInfo |-> None,
                                                   automatic |-> automatic])]
        validated == validateCityName(cityName)
    IN  /\ widget.loads < MaxOverlapLoads
        /\ IF validated.kind = "error" \/ ~Truthy(validated.value)
           THEN FlightCatch(w, id, IF validated.kind = "error" THEN validated
                                   ELSE ErrorOf("Error", MsgEnterValidCity),
                            pending, now)
           ELSE /\ widget' = w
                /\ timers' = pending

\* loadWeather is called, whatever the calls in flight
CallLoadWeather ==
    /\ op = "loadWeather, overlapping"
    /\ \E cityName \in OverlapCityNames : BeginLoad(cityName, timers, FALSE)
    /\ UNCHANGED <<op, arg, body, result, fpc, maxRetries, timeout, attempt, now, requests,
                   fresult, starts, settled, failures>>

\* the fetch of getCoordinates ends in call id: on a response the body is read
\* and the location recorded, and getWeatherData runs up to its request
FlightGeocodingEnds(id) ==
    /\ op = "loadWeather, overlapping"
    /\ widget.flights[id].pc = "geocoding"
    /\ \E end \in FetchWithRetryEnds :
        IF end.kind = "error"
        THEN FlightCatch(widget, id, GetCoordinatesCatch(end), timers, now)
        ELSE \E b \in OverlapGeocodingBodies(widget.flights[id].cityName) :
            LET cityName == widget.flights[id].cityName
                located == GetCoordinatesFromBody(validateCityName(cityName).value.str, b)
            IN  IF located.kind = "error"
                THEN FlightCatch(widget, id, located, timers, now)
                ELSE LET resolved == [widget EXCEPT
                                         !.flights[id].locationInfo = located.value,
                                         !.currentLocationInfo = located.value]
                         checked == CoordinateCheck(located.value.latitude,
                                                    located.value.longitude)
                     IN  IF checked # None
                         THEN FlightCatch(resolved, id, GetWeatherDataCatch(checked), timers, now)
                         ELSE /\ widget' = [resolved EXCEPT !.flights[id].pc = "weather"]
                              /\ UNCHANGED timers
    /\ UNCHANGED <<op, arg, body, result, fpc, maxRetries, timeout, attempt, now, requests,
                   fresult, starts, settled, failures>>

\* the fetch of getWeatherData ends in call id: on a response the payload is
\* read and rendered
FlightWeatherEnds(id) ==
    /\ op = "loadWeather, overlapping"
    /\ widget.flights[id].pc = "weather"
    /\ \E end \in FetchWithRetryEnds :
        IF end.kind = "error"
        THEN FlightCatch(widget, id, GetWeatherDataCatch(end), timers, now)
        ELSE \E b \in LoadWeatherBodies :
            LET weatherData == GetWeatherDataFromBody(b)
            IN  IF weatherData.kind = "error"
                THEN FlightCatch(widget, id, weatherData, timers, now)
                ELSE /\ widget' = RenderFlight(widget, id)
                     /\ UNCHANGED timers
    /\ UNCHANGED <<op, arg, body, result, fpc, maxRetries, timeout, attempt, now, requests,
                   fresult, starts, settled, failures>>

\* the timer of an automatic retry fires: a load of the last location, if any,
\* whatever the calls in flight
OverlapAutoRetryFires ==
    /\ op = "loadWeather, overlapping"
    /\ \E t \in timers :
        /\ t.kind = "autoRetry" /\ t.due <= now
        /\ IF widget.currentLocationInfo # JsNull
           THEN BeginLoad(widget.currentLocationInfo.name, timers \ {t}, TRUE)
           ELSE /\ timers' = timers \ {t}
                /\ UNCHANGED widget
    /\ UNCHANGED <<op, arg, body, result, fpc, maxRetries, timeout, attempt, now, requests,
                   fresult, starts, settled, failures>>

InitOverlap ==
    /\ op = "loadWeather, overlapping"
    /\ arg = None
    /\ body = None
    /\ result = None
    /\ InitFetchVars
    /\ widget = OverlapInit

NextOverlap ==
    \/ CallLoadWeather
    \/ \E id \in 1..MaxOverlapLoads : id <= widget.loads /\ FlightGeocodingEnds(id)
    \/ \E id \in 1..MaxOverlapLoads : id <= widget.loads /\ FlightWeatherEnds(id)
    \/ OverlapAutoRetryFires
    \/ Tick

SpecOverlap ==
    InitOverlap /\ [][NextOverlap]_vars

-----------------------------------------------------------------------------
\* NetworkUtils.fetchWithRetry, several calls at a time
\*
\* Every pass of the loop makes its controller, arms a timer whose callback
\* aborts that controller, and issues a request with the controller's signal.
\* Here fpc, attempt and fresult are indexed by the call, and a timer records
\* the pass that armed it and the controller its callback holds.  The clock
\* stays at 0 and the timers hold the delay that remains.  Of the histories,
\* settled holds the last callback of a timeout timer that ran: the pass that
\* armed it, the requests in flight at that moment and those it cancelled;
\* starts, failures and the count of requests are not kept.

\* the calls of fetchWithRetry followed: one call and another, made at any time
Calls ==
    {1, 2}

\* a variant with one controller for the whole call, made before the loop
ControllerOf_PerCall(call, a) ==
    <<call, 1>>

\* new AbortController() in pass a of the loop of a call
ControllerOf(call, a) ==
    <<call, a>>

\* setTimeout(() => controller.abort(), defaultOptions.timeout) in pass a
ControllerTimer(call, a, due) ==
    [kind |-> "abort", call |-> call, att |-> a, controller |-> ControllerOf(call, a),
     due |-> due]

\* the timer of the backoff delay after pass a
CallBackoffTimer(call, a, due) ==
    [kind |-> "backoff", call |-> call, att |-> a, due |-> due]

\* the signal given to the request a call has in flight
SignalOf(call) ==
    ControllerOf(call, attempt[call])

\* one pass of the try block of a call up to the await
CallStartAttempt(call, a, pending) ==
    /\ attempt' = [attempt EXCEPT ![call] = a]
    /\ timers' = pending \cup {ControllerTimer(call, a, now + DefaultTimeout)}
    /\ fpc' = [fpc EXCEPT ![call] = "fetching"]

\* the catch block, entered with error in each of the calls caught, while
\* pending timers remain
CallsCatch(caught, error, pending) ==
    LET last(c) == IsLastAttempt(attempt[c], DefaultMaxRetries)
    IN  /\ fpc' = [c \in Calls |-> IF c \notin caught THEN fpc[c]
                                   ELSE IF last(c) THEN "thrown" ELSE "backoff"]
        /\ fresult' = [c \in Calls |-> IF c \in caught /\ last(c) THEN SurfacedError(error)
                                       ELSE fresult[c]]
        /\ timers' = pending \cup {CallBackoffTimer(c, attempt[c], now + BackoffDelay(attempt[c])) :
                                     c \in {d \in caught : ~last(d)}}
        /\ UNCHANGED attempt

\* fetchWithRetry(url) is called: the loop runs to its first await
ConcurrentCall(call) ==
    /\ op = "fetchWithRetry, concurrent"
    /\ fpc[call] = "idle"
    /\ CallStartAttempt(call, 1, timers)
    /\ UNCHANGED <<widget, op, arg, body, result, maxRetries, timeout, now, requests, fresult,
                   starts, settled, failures>>

\* the fetch() of a call resolves with a response: clearTimeout(timeoutId)
ConcurrentResolves(call, response) ==
    /\ op = "fetchWithRetry, concurrent"
    /\ fpc[call] = "fetching"
    /\ LET cleared == timers \ {t \in timers : /\ t.kind = "abort" /\ t.call = call
                                               /\ t.att = attempt[call]}
       IN  IF ~ResponseOk(response)
           THEN CallsCatch({call}, HttpError(response), cleared)
           ELSE /\ fpc' = [fpc EXCEPT ![call] = "returned"]
                /\ fresult' = [fresult EXCEPT ![call] = response]
                /\ timers' = cleared
                /\ UNCHANGED attempt
    /\ UNCHANGED <<widget, op, arg, body, result, maxRetries, timeout, now, requests, starts,
                   settled, failures>>

\* the fetch() of a call rejects on a network fault; the timer stays armed
ConcurrentRejects(call) ==
    /\ op = "fetchWithRetry, concurrent"
    /\ fpc[call] = "fetching"
    /\ CallsCatch({call}, NetworkFault, timers)
    /\ UNCHANGED <<widget, op, arg, body, result, maxRetries, timeout, now, requests, starts,
                   settled, failures>>

\* a timer fires: controller.abort(), which rejects the requests in flight that
\* were given the signal of that controller
ControllerTimerFires ==
    /\ op = "fetchWithRetry, concurrent"
    /\ \E t \in timers :
        /\ t.kind = "abort" /\ t.due <= now
        /\ LET cancelled == {c \in Calls : fpc[c] = "fetching" /\ SignalOf(c) = t.controller}
           IN  /\ settled' = <<[by |-> <<t.call, t.att>>,
                                 inFlight |-> {<<c, attempt[c]>> :
                                                 c \in {d \in Calls : fpc[d] = "fetching"}},
                                 cancelled |-> {<<c, attempt[c]>> : c \in cancelled}]>>
               /\ CallsCatch(cancelled, AbortError, timers \ {t})
    /\ UNCHANGED <<widget, op, arg, body, result, maxRetries, timeout, now, requests, starts,
                   failures>>

\* the backoff delay of a call is over: its loop goes round
ConcurrentBackoffElapses(call) ==
    /\ op = "fetchWithRetry, concurrent"
    /\ fpc[call] = "backoff"
    /\ \E t \in timers :
        /\ t.kind = "backoff" /\ t.call = call /\ t.att = attempt[call] /\ t.due <= now
        /\ IF LoopContinues(attempt[call] + 1, DefaultMaxRetries)
           THEN /\ CallStartAttempt(call, attempt[call] + 1, timers \ {t})
                /\ UNCHANGED fresult
           ELSE /\ fpc' = [fpc EXCEPT ![call] = "returned"]
                /\ fresult' = [fresult EXCEPT ![call] = Undefined]
                /\ timers' = timers \ {t}
                /\ UNCHANGED attempt
    /\ UNCHANGED <<widget, op, arg, body, result, maxRetries, timeout, now, requests, starts,
                   settled, failures>>

\* time passes, up to the next timer that is due: every delay shortens
ConcurrentTick ==
    /\ op = "fetchWithRetry, concurrent"
    /\ timers # {}
    /\ \A t \in timers : t.due > now
    /\ LET steps == {TickMs} \cup {t.due - now : t \in timers}
           passed == CHOOSE d \in steps : \A e \in steps : d <= e
       IN  timers' = {[t EXCEPT !.due = @ - passed] : t \in timers}
    /\ UNCHANGED <<widget, op, arg, body, result, fpc, maxRetries, timeout, attempt, now,
                   requests, fresult, starts, settled, failures>>

InitConcurrent ==
    /\ op = "fetchWithRetry, concurrent"
    /\ arg = None
    /\ body = None
    /\ result = None
    /\ widget = None
    /\ fpc = [c \in Calls |-> "idle"]
    /\ attempt = [c \in Calls |-> 0]
    /\ fresult = [c \in Calls |-> None]
    /\ maxRetries = DefaultMaxRetries
    /\ timeout = DefaultTimeout
    /\ now = 0
    /\ timers = {}
    /\ requests = 0
    /\ starts = <<>>
    /\ settled = <<>>
    /\ failures = <<>>

NextConcurrent ==
    \/ \E call \in Calls : ConcurrentCall(call)
    \/ \E call \in Calls, response \in LoadResponses : ConcurrentResolves(call, response)
    \/ \E call \in Calls : ConcurrentRejects(call)
    \/ ControllerTimerFires
    \/ \E call \in Calls : ConcurrentBackoffElapses(call)
    \/ ConcurrentTick

SpecConcurrent ==
    InitConcurrent /\ [][NextConcurrent]_vars

-----------------------------------------------------------------------------
\* Properties of fetchWithRetry

IsAbort(outcome) ==
    outcome.kind = "error" /\ outcome.name = "AbortError"

IsNetworkFault(outcome) ==
    outcome.kind = "error" /\ outcome.name = "TypeError"

IsResponse(outcome) ==
    outcome.kind = "response"

Is2xx(status) ==
    status \in 200..299

\* C1: one call issues at most maxRetries requests, and once the call has
\* thrown (its last attempt failed, by a timeout or otherwise) the number of
\* requests issued no longer changes.
C1_AtMostMaxAttempts ==
    /\ [](fpc # "idle" => requests <= maxRetries)
    /\ [][fpc # "idle" /\ Len(failures) >= maxRetries => requests' = requests]_vars

C1_Witness ==
    /\ fpc = "thrown"
    /\ maxRetries = 3
    /\ requests = 3
    /\ IsAbort(settled[3].outcome)

C3_SuccessAfterFailures ==
    /\ [](fpc = "returned" /\ IsResponse(fresult) =>
            LET k == Len(starts)
            IN  /\ k <= maxRetries
                /\ requests = k
                /\ Len(failures) = k - 1
                /\ Len(settled) = k
                /\ fresult = settled[k].outcome
                /\ Is2xx(fresult.status)
                /\ settled[k].at >= 1000 * ((2 ^ (k - 1)) - 1))
    /\ [][fpc = "returned" => requests' = requests /\ fresult' = fresult]_vars

C3_Witness ==
    /\ fpc = "returned"
    /\ IsResponse(fresult)
    /\ Len(failures) = 2
    /\ requests = 3
    /\ now >= 3000

\* C4: the error thrown after maxRetries failures is decided by how the last
\* attempt failed: the timeout error after an abort, the connectivity error
\* after a network fault, and otherwise the error of the last attempt itself.
C4_LastFailureDecides ==
    fpc = "thrown" =>
        /\ Len(settled) = maxRetries
        /\ Len(failures) = maxRetries
        /\ LET last == settled[maxRetries].outcome
           IN  /\ IsAbort(last) => fresult = ErrorOf("Error", MsgRequestTimeout)
               /\ IsNetworkFault(last) => fresult = ErrorOf("Error", MsgNetworkFailed)
               /\ IsResponse(last) =>
                    /\ fresult = failures[maxRetries].error
                    /\ fresult.message =
                        <<"H", "T", "T", "P", " ">> \o DecimalChars(last.status)
                            \o <<":", " ">> \o last.statusText

C4_Witness ==
    /\ fpc = "thrown"
    /\ maxRetries = 3
    /\ IsAbort(settled[1].outcome)
    /\ IsResponse(settled[2].outcome)
    /\ IsNetworkFault(settled[3].outcome)

\* C5: no request stays in flight beyond the timeout of its attempt; an
\* attempt whose request was still in flight at the timeout is cancelled at
\* that time and counts as failed: it is followed by the backoff and the next
\* attempt while attempts remain, and by the throw when it was the last.
C5_AttemptBoundedByTimeout ==
    /\ fpc = "fetching" => now <= starts[attempt] + timeout
    /\ \A k \in 1..Len(settled) :
        /\ settled[k].at <= starts[k] + timeout
        /\ IsAbort(settled[k].outcome) =>
            /\ settled[k].at = starts[k] + timeout
            /\ failures[k].error.name = "AbortError"
            /\ k < maxRetries =>
                \/ Len(starts) > k
                \/ fpc = "backoff" /\ \E t \in timers : t.kind = "backoff" /\ t.att = k
            /\ k = maxRetries => fpc = "thrown"

C5_Witness ==
    /\ timeout = 10000
    /\ Len(settled) = 2
    /\ IsAbort(settled[1].outcome)
    /\ settled[1].at = 10000
    /\ fpc = "fetching"

StatusDigits ==
    [s \in {300, 404} |-> IF s = 300 THEN <<"3", "0", "0">> ELSE <<"4", "0", "4">>]

\* C6: a response that is returned has a 2xx status; a non-2xx response makes
\* its attempt a failed one whose error carries the status code and the reason
\* text, is followed by a retry while attempts remain, and is the error thrown
\* when the attempt was the last.
C6_Non2xxIsFailure ==
    /\ fpc = "returned" /\ IsResponse(fresult) => Is2xx(fresult.status)
    /\ \A k \in 1..Len(settled) :
        LET r == settled[k].outcome
        IN  IsResponse(r) /\ ~Is2xx(r.status) =>
                /\ Len(failures) >= k
                /\ Includes(failures[k].error.message, StatusDigits[r.status])
                /\ Includes(failures[k].error.message, r.statusText)
                /\ k < maxRetries => Len(starts) > k \/ fpc = "backoff"
                /\ k = maxRetries => fpc = "thrown" /\ fresult = failures[k].error

C6_Witness ==
    /\ fpc = "thrown"
    /\ maxRetries = 3
    /\ IsResponse(settled[3].outcome)
    /\ settled[3].outcome.status = 404
    /\ Includes(fresult.message, <<"4", "0", "4", ":", " ", "N", "o", "t", " ", "F", "o", "u", "n", "d">>)

-----------------------------------------------------------------------------
\* Properties of validateCityName

\* s without the white space at its two ends: what lies between its first and
\* its last character that is not white space
TrimOf(s) ==
    LET keep == {k \in 1..Len(s) : s[k] \notin {" ", "\t", "\n"}}
    IN  IF keep = {} THEN <<>>
        ELSE SubSeq(s, CHOOSE k \in keep : \A q \in keep : k <= q,
                       CHOOSE k \in keep : \A q \in keep : k >= q)

\* the rules an input breaks, numbered as the specification numbers them
BrokenRules(x) ==
    IF x.t # "string" \/ x.str = <<>> THEN {1}
    ELSE LET t == TrimOf(x.str)
         IN  {r \in 2..5 :
                \/ r = 2 /\ Len(t) = 0
                \/ r = 3 /\ Len(t) < 2
                \/ r = 4 /\ Len(t) > 100
                \/ r = 5 /\ \E i \in 1..Len(t) : t[i] \in {"<", ">", "\"", "'", "&"}}

RuleMessage ==
    <<MsgCityRequired, MsgCityEmpty, MsgCityTooShort, MsgCityTooLong, MsgCityInvalidChars>>

\* C7: the error of validateCityName is the error of the lowest-numbered rule
\* the input breaks, and there is an error exactly when some rule is broken.
C7_FirstBrokenRuleWins ==
    result # None =>
        LET broken == BrokenRules(arg)
        IN  /\ broken = {} <=> result.kind = "value"
            /\ broken # {} =>
                LET first == CHOOSE r \in broken : \A q \in broken : r <= q
                IN  result = ErrorOf("Error", RuleMessage[first])

C7_Witness ==
    /\ arg = Str(<<"<">>)
    /\ BrokenRules(arg) = {3, 5}
    /\ result = ErrorOf("Error", MsgCityTooShort)

-----------------------------------------------------------------------------
\* Properties of getCoordinates

\* the top result of the body read, when the body has one
HasTopResult ==
    /\ body # None
    /\ body.parse = "ok"
    /\ "results" \in DOMAIN body.data
    /\ Len(body.data.results) > 0

\* a result lacks a field that is absent, and lacks a name that is empty
Lacks(top, field) ==
    \/ field \notin DOMAIN top
    \/ top[field] = Str(<<>>)

\* C9: with a valid city name and a body that parsed, getCoordinates throws
\* the not-found error when there is no result, the invalid-data error when the
\* top result lacks latitude, longitude or name, and in every other case,
\* whatever the values of the three, returns a record with the name and the
\* numeric coordinates of the top result and its country, "Unknown" when the
\* top result has none.
C9_ResolveByNameOutcomes ==
    result # None /\ body # None /\ body.parse = "ok" =>
        IF ~HasTopResult
        THEN result = ErrorOf("Error", MsgNoResultsHead \o TrimOf(arg.str) \o MsgNoResultsTail)
        ELSE LET top == body.data.results[1]
             IN  IF \E field \in {"latitude", "longitude", "name"} : Lacks(top, field)
                 THEN result = ErrorOf("Error", MsgInvalidLocationData)
                 ELSE /\ result.kind = "value"
                      /\ result.value.name = top.name
                      /\ top.latitude.t = "number" => result.value.latitude = top.latitude
                      /\ top.longitude.t = "number" => result.value.longitude = top.longitude
                      /\ result.value.country =
                            IF "country" \in DOMAIN top THEN top.country
                            ELSE Str(<<"U", "n", "k", "n", "o", "w", "n">>)

InRange(x, low, high) ==
    x.t = "number" /\ low <= x.num /\ x.num <= high

\* C10: a record returned by getCoordinates has its latitude in [-90, 90] and
\* its longitude in [-180, 180], and passes the coordinate check of
\* getWeatherData.
C10_ResolvedCoordinatesInRange ==
    result.kind = "value" =>
        /\ InRange(result.value.latitude, -90, 90)
        /\ InRange(result.value.longitude, -180, 180)
        /\ CoordinateCheck(result.value.latitude, result.value.longitude) = None

\* the message starts with the prefix
StartsWith(message, prefix) ==
    Len(message) >= Len(prefix) /\ SubSeq(message, 1, Len(prefix)) = prefix

\* C11: when the fetch of getCoordinates has thrown, the error surfaced is the
\* error of the fetch behind the prefix 'Unable to find location: ', while the
\* not-found and the invalid-data errors are surfaced without the prefix.
C11_NetworkFailureWrapped ==
    result # None /\ validateCityName(arg).kind = "value" =>
        /\ fpc = "thrown" =>
            result = ErrorOf("Error",
                             <<"U", "n", "a", "b", "l", "e", " ", "t", "o", " ", "f", "i", "n", "d",
                               " ", "l", "o", "c", "a", "t", "i", "o", "n", ":", " ">>
                                \o fresult.message)
        /\ fpc = "returned" /\ result.kind = "error" /\ body.parse = "ok" =>
            /\ ~StartsWith(result.message, MsgUnableToFindLocation)
            /\ \/ StartsWith(result.message, NeedleNoResults)
               \/ result.message = MsgInvalidLocationData

-----------------------------------------------------------------------------
\* Properties of reverseGeocode

\* C12: reverseGeocode ends with a returned record, never with an error; the
\* record has the latitude and the longitude of the call, and when the fetch
\* threw, the body did not parse or the response had no address, it is the
\* record 'Your Location', 'Current Location', ''.
C12_ReverseGeocodeNeverRaises ==
    result # None =>
        /\ result.kind = "value"
        /\ result.value.latitude = arg.latitude
        /\ result.value.longitude = arg.longitude
        /\ \/ fpc = "thrown"
           \/ body.parse = "fails"
           \/ body.data = JsNull
           \/ "address" \notin DOMAIN body.data
           => /\ result.value.name =
                    Str(<<"Y", "o", "u", "r", " ", "L", "o", "c", "a", "t", "i", "o", "n">>)
              /\ result.value.country =
                    Str(<<"C", "u", "r", "r", "e", "n", "t", " ",
                          "L", "o", "c", "a", "t", "i", "o", "n">>)
              /\ result.value.admin1 = Str(<<>>)

C12_Witness ==
    /\ op = "reverseGeocode"
    /\ fpc = "thrown"
    /\ result.kind = "value"
    /\ result.value.name = Str(StrYourLocation)
    /\ arg.latitude = Num(-91)

-----------------------------------------------------------------------------
\* Properties of searchCities

\* C13: searchCities ends with a returned list, never with an error; for a
\* query that breaks a validation rule no request is ever issued and the list
\* is empty, and for a valid query whose fetch threw or whose body did not
\* parse the list is empty.
C13_SearchCitiesNeverRaises ==
    /\ BrokenRules(arg) # {} => requests = 0 /\ fpc = "idle"
    /\ result # None =>
        /\ result.kind = "value"
        /\ BrokenRules(arg) # {} => result.value = <<>>
        /\ fpc = "thrown" => result.value = <<>>
        /\ fpc = "returned" /\ body.parse = "fails" => result.value = <<>>

C13_Witness ==
    /\ op = "searchCities"
    /\ arg = Str(<<"<">>)
    /\ result = Value(<<>>)
    /\ requests = 0

-----------------------------------------------------------------------------
\* Properties of getWeatherData

CoordinateMessages ==
    {MsgInvalidCoordinates, MsgInvalidLatitude, MsgInvalidLongitude}

\* x is not a finite number
NotFinite(x) ==
    x.t # "number"

\* x is a number outside [low, high]
OutOfRange(x, low, high) ==
    x.t = "number" /\ (x.num < low \/ x.num > high)

\* getWeatherData has been called
WeatherDataCalled ==
    op = "getWeatherData" /\ (fpc # "idle" \/ result # None)

\* C14: for a pair with a value that is not finite, a latitude outside
\* [-90, 90] or a longitude outside [-180, 180], getWeatherData issues no
\* request at any time and ends with one of the three coordinate errors.
C14_CoordinatesCheckedBeforeNetwork ==
    \/ NotFinite(arg.latitude) \/ NotFinite(arg.longitude)
    \/ OutOfRange(arg.latitude, -90, 90) \/ OutOfRange(arg.longitude, -180, 180)
    => /\ requests = 0
       /\ fpc = "idle"
       /\ timers = {}
       /\ result # None => result.kind = "error" /\ result.message \in CoordinateMessages

C14_Witness ==
    /\ op = "getWeatherData"
    /\ arg = [latitude |-> Num(91), longitude |-> Num(0)]
    /\ result.kind = "error"
    /\ result.message \in CoordinateMessages
    /\ requests = 0

\* C15: for a finite latitude in [-90, 90] and a finite longitude in
\* [-180, 180], bounds included, a call of getWeatherData passes the coordinate
\* check and issues the weather request.
C15_InRangeCoordinatesAccepted ==
    /\ WeatherDataCalled
    /\ InRange(arg.latitude, -90, 90)
    /\ InRange(arg.longitude, -180, 180)
    => /\ requests >= 1
       /\ result.kind = "error" => result.message \notin CoordinateMessages

\* a block is missing from the payload of the body read
LacksBlock ==
    /\ body # None
    /\ body.parse = "ok"
    /\ body.data # JsNull
    /\ \E block \in {"current", "daily", "hourly"} :
        block \notin DOMAIN body.data \/ body.data[block] = JsNull

\* C16: a payload returned by getWeatherData is the payload read and has the
\* three blocks current, daily and hourly; when the payload read lacks one of
\* them the call ends with the error 'Invalid weather data format received
\* from server', behind the prefix of getWeatherData.
C16_PayloadHasThreeBlocks ==
    /\ result.kind = "value" =>
        /\ ~LacksBlock
        /\ result.value = body.data
        /\ {"current", "daily", "hourly"} \subseteq DOMAIN result.value
    /\ result # None /\ LacksBlock =>
        /\ result.kind = "error"
        /\ Includes(result.message,
                    <<"I", "n", "v", "a", "l", "i", "d", " ", "w", "e", "a", "t", "h", "e", "r", " ",
                      "d", "a", "t", "a", " ", "f", "o", "r", "m", "a", "t">>)

C16_Witness ==
    /\ op = "getWeatherData"
    /\ body # None
    /\ body.parse = "ok"
    /\ body.data # JsNull
    /\ DOMAIN body.data = {"current", "daily"}
    /\ result = ErrorOf("Error", MsgUnableToFetchWeather \o MsgInvalidWeatherFormat)

\* C17: when the fetch of getWeatherData has thrown, the error surfaced is the
\* error of the fetch behind the prefix 'Unable to fetch weather data: ', and
\* when the coordinate validation failed it is the error of the validation,
\* without the prefix.
C17_WeatherFailureWrapped ==
    result # None =>
        /\ fpc = "thrown" =>
            result = ErrorOf("Error",
                             <<"U", "n", "a", "b", "l", "e", " ", "t", "o", " ", "f", "e", "t", "c",
                               "h", " ", "w", "e", "a", "t", "h", "e", "r", " ", "d", "a", "t", "a",
                               ":", " ">> \o fresult.message)
        /\ fpc = "idle" =>
            /\ result.kind = "error"
            /\ result.message \in CoordinateMessages

-----------------------------------------------------------------------------
\* Properties of loadWeather

\* the load last started is over
LoadEnded ==
    op = "loadWeather" /\ widget.loads >= 1 /\ widget.pc = "ready"

\* the city name of the load fails the validation
NameRefused ==
    validateCityName(arg).kind = "error"

\* the load has resolved a location whose coordinates fail the range check
CoordinatesRefused ==
    /\ widget.locationInfo # None
    /\ \/ NotFinite(widget.locationInfo.latitude)
       \/ NotFinite(widget.locationInfo.longitude)
       \/ OutOfRange(widget.locationInfo.latitude, -90, 90)
       \/ OutOfRange(widget.locationInfo.longitude, -180, 180)

\* an automatic retry is scheduled for the load last started
RetryScheduledForLoad ==
    \E t \in timers : t.kind = "autoRetry" /\ t.att = widget.loads

-----------------------------------------------------------------------------
\* Properties of the forecast builders

Min(a, b) ==
    IF a < b THEN a ELSE b

Max(a, b) ==
    IF a > b THEN a ELSE b

\* x, in tenths, rounds to n
RoundsTo(x, n) ==
    10 * n - 5 <= x /\ x < 10 * n + 5

\* C19: processHourlyForecast(hourly, currentHour) returns exactly
\* min(12, max(0, L - currentHour)) entries, L the length of the hourly time
\* series, and its entry j, counted from 0, is built from index currentHour + j
\* of the series: its hour, its temperature, its weather code.
C19_HourlyWindow ==
    op = "processHourlyForecast" /\ result # None =>
        LET hourly == arg.hourly
            entries == result.value
        IN  /\ Len(entries) = Min(12, Max(0, Len(hourly.time) - arg.currentHour))
            /\ \A j \in 0..(Len(entries) - 1) :
                LET index == arg.currentHour + j + 1
                    entry == entries[j + 1]
                IN  /\ entry.hour * 60 = hourly.time[index] % 1440
                    /\ RoundsTo(hourly.temperature_2m[index], entry.temperature)
                    /\ entry.weatherCode = hourly.weather_code[index]

C19_Witness ==
    /\ op = "processHourlyForecast"
    /\ arg.currentHour = 22
    /\ Len(arg.hourly.time) = 24
    /\ result # None
    /\ Len(result.value) = 2
    /\ result.value[1].hour = 22
    /\ result.value[2].hour = 23

\* C20: processForecast on a daily series of length N >= 1 returns exactly
\* N - 1 entries, the entry at position j built from index j of the series for
\* j = 1..N-1 in order, none from index 0, and a precipitation sum that is
\* missing becomes 0.
C20_DailyFromTomorrow ==
    op = "processForecast" /\ result # None /\ Len(arg.data.daily.time) >= 1 =>
        LET daily == arg.data.daily
            entries == result.value
        IN  /\ Len(entries) = Len(daily.time) - 1
            /\ \A j \in 1..(Len(daily.time) - 1) :
                LET entry == entries[j]
                IN  /\ entry.date = 1440 * daily.time[j + 1]
                    /\ entry.date # 1440 * daily.time[1]
                    /\ entry.weatherCode = daily.weather_code[j + 1]
                    /\ RoundsTo(daily.temperature_2m_max[j + 1], entry.maxTemp)
                    /\ RoundsTo(daily.temperature_2m_min[j + 1], entry.minTemp)
                    /\ RoundsTo(daily.apparent_temperature_max[j + 1], entry.feelsLikeMax)
                    /\ RoundsTo(daily.apparent_temperature_min[j + 1], entry.feelsLikeMin)
                    /\ RoundsTo(daily.wind_speed_10m_max[j + 1], entry.maxWind)
                    /\ entry.precipitation =
                           IF daily.precipitation_sum[j + 1] = JsNull
                           THEN [t |-> "number", num |-> 0]
                           ELSE daily.precipitation_sum[j + 1]

C20_Witness ==
    /\ op = "processForecast"
    /\ Len(arg.data.daily.time) = 5
    /\ result # None
    /\ Len(result.value) = 4
    /\ arg.data.daily.precipitation_sum[2] = JsNull
    /\ result.value[1].precipitation = [t |-> "number", num |-> 0]
    /\ \A j \in 1..4 : result.value[j].date = 1440 * arg.data.daily.time[j + 1]

\* the weekday of the calendar date with the given day number since
\* 1970-01-01, a Thursday, in the Sunday-first table
WeekdayOf(dayNumber) ==
    <<"Sunday", "Monday", "Tuesday", "Wednesday", "Thursday", "Friday", "Saturday">>[
        ((dayNumber + 4) % 7) + 1]

\* C21: for every entry of the daily forecast and every time zone offset of
\* the browser, the weekday name of the entry is the weekday of the calendar
\* date the payload gives for it.
C21_WeekdayOfPayloadDate ==
    op = "processForecast" /\ result # None =>
        \A j \in 1..Len(result.value) :
            result.value[j].dayName = WeekdayOf(arg.data.daily.time[j + 1])

-----------------------------------------------------------------------------
\* Properties of getWindDirection

CompassLabels ==
    <<"N", "NNE", "NE", "ENE", "E", "ESE", "SE", "SSE", "S", "SSW", "SW", "WSW", "W", "WNW",
      "NW", "NNW">>

\* C22: for a bearing d of 0 to 360 degrees, getWindDirection(d) is the label
\* at index n mod 16 of the 16-label compass table, n the integer nearest to
\* d / 22.5, so that 0, 359 and 360 give N and 90 gives E.
C22_CompassLabel ==
    op = "getWindDirection" /\ result # None =>
        /\ \E n \in 0..17 :
            /\ 225 * (2 * n - 1) <= 2 * arg
            /\ 2 * arg < 225 * (2 * n + 1)
            /\ result.value = CompassLabels[(n % 16) + 1]
        /\ arg \in {0, 3590, 3600} => result.value = "N"
        /\ arg = 900 => result.value = "E"

C22_Witness ==
    /\ op = "getWindDirection"
    /\ arg = 3590
    /\ result = Value("N")

-----------------------------------------------------------------------------
\* Properties of getWeatherDescription and getWeatherIcon

\* the 28 codes the tables list
EnumeratedCodes ==
    {0, 1, 2, 3, 45, 48, 51, 53, 55, 56, 57, 61, 63, 65, 66, 67, 71, 73, 75, 77, 80, 81, 82,
     85, 86, 95, 96, 99}

\* C23: getWeatherDescription and getWeatherIcon give, for each of the 28 listed
\* codes, the description and the icon of the code, 'Clear sky' for 0, and for
\* every other code 'Unknown' and the question mark.
C23_CodeTablesTotal ==
    /\ op = "getWeatherDescription" /\ result # None =>
        /\ result.kind = "value"
        /\ arg \in EnumeratedCodes <=> result.value # "Unknown"
        /\ arg = 0 => result.value = "Clear sky"
        /\ arg = 45 => result.value = "Fog"
        /\ arg = 99 => result.value = "Thunderstorm with heavy hail"
    /\ op = "getWeatherIcon" /\ result # None =>
        /\ result.kind = "value"
        /\ arg \in EnumeratedCodes <=> result.value # "U+2753"
        /\ arg = 0 => result.value = "U+2600"
        /\ arg = 99 => result.value = "U+26C8"

C23_Witness ==
    /\ op = "getWeatherDescription"
    /\ arg = 0
    /\ result = Value("Clear sky")

-----------------------------------------------------------------------------
\* Properties of the automatic retry

\* the load last started has failed on a timeout or on a connection failure:
\* its last call of fetchWithRetry has thrown the error of one of the two
FailedOnNetwork ==
    /\ LoadEnded
    /\ widget.view = "error"
    /\ fpc = "thrown"
    /\ \/ IsAbort(settled[Len(settled)].outcome)
       \/ IsNetworkFault(settled[Len(settled)].outcome)

\* C24: an automatic retry is scheduled for a failed load only when the load
\* has failed on a timeout or on a connection failure.
C24_AutoRetryOnlyOnNetworkFailure ==
    LoadEnded /\ RetryScheduledForLoad => FailedOnNetwork

\* the timers of the automatic retry that are pending
AutoRetryTimers ==
    {t \in timers : t.kind = "autoRetry"}

\* C25: whenever a load has failed on a timeout or on a connection failure, in
\* either stage, while a last resolved location exists, a retry is pending, due
\* 5 seconds after the failure, and the load it starts at that time is a load
\* of the last resolved location; a retry that fires while no location has been
\* resolved starts no load.
C25_NetworkFailureRetriedAfterFiveSeconds ==
    /\ [](FailedOnNetwork /\ widget.currentLocationInfo # JsNull =>
            \E t \in AutoRetryTimers : t.att = widget.loads /\ t.due <= now + 5000)
    /\ [][AutoRetryTimers # {} /\ AutoRetryTimers' = {} =>
            \A t \in AutoRetryTimers :
                /\ now = t.due
                /\ IF widget.currentLocationInfo # JsNull
                   THEN /\ widget'.loads = widget.loads + 1
                        /\ arg' = widget.currentLocationInfo.name
                   ELSE widget'.loads = widget.loads]_vars

\* C26: a load started by the automatic retry that fails schedules no further
\* automatic retry, so that one load of the user causes at most one automatic
\* load.
C26_AutoRetriedOnce ==
    LoadEnded /\ widget.automatic => ~RetryScheduledForLoad

-----------------------------------------------------------------------------
\* Properties of the stages of a load

\* C27: currentLocationInfo is written only by the step that completes a load
\* with success: a load that fails, in whichever stage, leaves it as it was.
C27_LocationWrittenOnSuccessOnly ==
    [][widget'.currentLocationInfo # widget.currentLocationInfo =>
            widget'.pc = "ready" /\ widget'.view = "rendered"]_vars

\* C28: within a load the stages run in the order resolve location, fetch
\* weather, build and render: a weather request is issued only once the
\* location of the same load has been resolved from a geocoding response, and
\* the weather is rendered only once the weather fetch of the same load has
\* returned a response with the blocks rendered from.
C28_StagesInOrder ==
    op = "loadWeather" /\ widget.loads >= 1 =>
        /\ widget.pc = "geocoding" => widget.locationInfo = None /\ widget.view = "loading"
        /\ widget.pc = "weather" =>
            /\ widget.view = "loading"
            /\ widget.locationInfo # None
            /\ widget.geocodingRequests >= 1
        /\ widget.pc # "geocoding" /\ requests > widget.geocodingRequests =>
            /\ widget.locationInfo # None
            /\ widget.geocodingRequests >= 1
        /\ widget.view = "rendered" =>
            /\ widget.pc = "ready"
            /\ requests > widget.geocodingRequests
            /\ fpc = "returned"
            /\ Is2xx(fresult.status)
            /\ {"current", "daily", "hourly"} \subseteq DOMAIN body.data
            /\ widget.shown = widget.locationInfo

C28_Witness ==
    /\ op = "loadWeather"
    /\ widget.pc = "ready"
    /\ widget.view = "rendered"
    /\ widget.geocodingRequests = 2
    /\ requests = 4
    /\ widget.shown = widget.locationInfo

-----------------------------------------------------------------------------
\* Properties of overlapping loads

\* a call of loadWeather is suspended at one of its awaits
InFlight(w, id) ==
    w.flights[id].pc \in {"geocoding", "weather"}

AllLanded ==
    \A id \in 1..widget.loads : ~InFlight(widget, id)

\* the container holds what call id wrote when it ended
ShowsResultOf(entry) ==
    /\ widget.view = entry.view
    /\ widget.details = entry.message
    /\ entry.view = "rendered" => widget.shown = widget.flights[entry.load].locationInfo

\* C29: loads of one widget may overlap, a call of loadWeather leaving every
\* load in flight where it is, and once no load is in flight the container
\* shows the result of the load that ended last, whether or not that load was
\* the one started last.
C29_LastCompletedLoadIsShown ==
    /\ [](op = "loadWeather, overlapping" /\ widget.loads >= 1 /\ AllLanded =>
            /\ Len(widget.finished) = widget.loads
            /\ ShowsResultOf(widget.finished[Len(widget.finished)]))
    /\ [][op = "loadWeather, overlapping" /\ widget'.loads > widget.loads =>
            \A id \in 1..widget.loads :
                /\ widget'.flights[id] = widget.flights[id]
                /\ Len(widget'.finished) >= Len(widget.finished)
                /\ SubSeq(widget'.finished, 1, Len(widget.finished)) = widget.finished]_vars

\* two loads overlapped, the one started first ended last and it is its result,
\* the weather of Paris, that is shown
C29_Witness ==
    /\ op = "loadWeather, overlapping"
    /\ widget.loads = 2 /\ AllLanded
    /\ widget.flights[1].cityName = Str(StrParis) /\ widget.flights[2].cityName = Str(StrLyon)
    /\ Len(widget.finished) = 2
    /\ widget.finished[1].load = 2 /\ widget.finished[2].load = 1
    /\ widget.finished[1].view = "rendered"
    /\ widget.view = "rendered" /\ widget.shown.name = Str(StrParis)

-----------------------------------------------------------------------------
\* Properties of the forecast toggle

\* a step flips the view mode
TogglesView ==
    op = "loadWeather" /\ widget'.showHourlyForecast # widget.showHourlyForecast

\* C30: a toggle of the forecast view only flips the view mode: it starts no
\* load, so neither the location-resolution stage nor the weather stage runs,
\* no request is issued, and the last-resolved location stays as it is.
C30_ToggleOnlyFlipsView ==
    [][TogglesView =>
        /\ widget'.pc = "ready"
        /\ widget'.loads = widget.loads
        /\ requests' = requests
        /\ widget'.view = "rendered"
        /\ widget'.currentLocationInfo = widget.currentLocationInfo]_vars

\* C31: whenever no load is in flight and the widget shows rendered weather, the
\* location whose weather is shown is currentLocationInfo, the location the
\* automatic retry and the forecast toggle load again, however the overlapping
\* loads interleave.
C31_ShownLocationIsCurrent ==
    op = "loadWeather, overlapping" /\ AllLanded /\ widget.view = "rendered" =>
        widget.shown = widget.currentLocationInfo

-----------------------------------------------------------------------------
\* Properties of the termination of loadWeather

\* a call of loadWeather is suspended
LoadInProgress ==
    op = "loadWeather" /\ widget.pc \in {"geocoding", "weather"}

\* the call has returned undefined with the container rendered or showing an error
LoadReturned ==
    /\ widget.pc = "ready"
    /\ widget.view \in {"rendered", "error"}
    /\ result = Undefined

\* C32: every call of loadWeather leaves the loading state, with the container
\* rendered or showing an error, and returns without throwing, since every
\* request is answered, fails or is cancelled by the timer of its attempt.
C32_LoadEventuallyEnds ==
    /\ LoadInProgress ~> LoadReturned
    /\ [][op = "loadWeather" =>
            ((Resumable /\ widget'.pc # widget.pc) <=> <<LoadContinuation>>_vars)]_vars
    /\ [](op = "loadWeather" /\ widget.loads >= 1 =>
            IF widget.pc = "ready" THEN LoadReturned
            ELSE widget.view = "loading" /\ result = None)

\* a load has ended although none of its requests was ever answered: the three
\* attempts of the geocoding request were cancelled by their timers
C32_Witness ==
    /\ op = "loadWeather" /\ widget.loads = 1 /\ LoadReturned
    /\ widget.view = "error"
    /\ Len(failures) = DefaultMaxRetries
    /\ \A k \in 1..Len(failures) : failures[k].error = AbortError

-----------------------------------------------------------------------------
\* Properties of the timeout timers of concurrent calls

\* C33: the callback of the timeout timer armed for attempt k of a call cancels
\* no request but that of attempt k of the same call; when it runs after that
\* request has failed, which leaves the timer armed, it cancels nothing,
\* whatever requests of later attempts or of other calls are in flight.
C33_TimerCancelsOwnAttemptOnly ==
    op = "fetchWithRetry, concurrent" =>
        \A i \in 1..Len(settled) :
            /\ settled[i].cancelled \subseteq {settled[i].by}
            /\ settled[i].by \notin settled[i].inFlight => settled[i].cancelled = {}

\* the timer of the first attempt of call 1, whose request had failed, ran
\* while the second attempt of call 1 and the request of call 2 were in flight,
\* and both are in flight still
C33_Witness ==
    /\ op = "fetchWithRetry, concurrent"
    /\ settled = <<[by |-> <<1, 1>>, inFlight |-> {<<1, 2>>, <<2, 1>>}, cancelled |-> {}]>>
    /\ fpc = [c \in Calls |-> "fetching"]
    /\ attempt[1] = 2 /\ attempt[2] = 1

====
